---- MODULE Spec2Model ----
(***************************************************************************)
(* dynamo-mapper: the operation builders (Query, GetItem, UpdateItem,      *)
(* DeleteItem, PutItem), the key-condition compiler inside Query, the      *)
(* string condition builder it renders with, the decoding of responses and *)
(* the update / condition expression compilers.  Under Spec one behaviour  *)
(* builds one operation for one table declaration and ends with its send.  *)
(***************************************************************************)
EXTENDS Integers, Sequences, FiniteSets, TLC

(* ---------------------------------------------------------------------- *)
(* Bounds of the model                                                     *)
(* ---------------------------------------------------------------------- *)
NumInputs == 2
MaxCallerKeys == 1

(* first key input fed to the encoders (tests/simple.rs uses "12345") *)
FirstInput == 12345

Inputs == FirstInput..(FirstInput + NumInputs - 1)

(* ---------------------------------------------------------------------- *)
(* Option<T>, AttributeValue, HashMap                                      *)
(* ---------------------------------------------------------------------- *)
None == [some |-> FALSE]
Some(x) == [some |-> TRUE, v |-> x]

AttributeValue_S(s) == [S |-> s]

EmptyMap == [k \in {} |-> k]

HashMap_insert(m, k, x) ==
    [y \in (DOMAIN m) \cup {k} |-> IF y = k THEN x ELSE m[y]]

(* extend that keeps an entry already present instead of overwriting it *)
HashMap_extend_KeepsExisting(m, other) ==
    [y \in (DOMAIN m) \cup (DOMAIN other) |->
        IF y \in DOMAIN m THEN m[y] ELSE other[y]]

HashMap_extend(m, other) ==
    [y \in (DOMAIN m) \cup (DOMAIN other) |->
        IF y \in DOMAIN other THEN other[y] ELSE m[y]]

unwrap_or_default(o) == IF o.some THEN o.v ELSE EmptyMap

(* ---------------------------------------------------------------------- *)
(* KeyBuilder implementations and table declarations                       *)
(* ---------------------------------------------------------------------- *)
KeyBuilder_build(builder, inputs) ==
    CASE builder = "PartitionKey" -> Some(AttributeValue_S("PK#" \o ToString(inputs)))
      [] builder = "SortKey"      -> Some(AttributeValue_S("SK#" \o ToString(inputs)))
      [] builder = "PersonKey"    -> Some(AttributeValue_S("PERSON#" \o ToString(inputs)))
      [] builder = "NotKey"       -> None

Tables ==
    { [pk_attribute |-> "partition key", sk_attribute |-> None,
       pk_builder |-> "PartitionKey", sk_builder |-> "SortKey"],
      [pk_attribute |-> "partition key", sk_attribute |-> Some("sort key"),
       pk_builder |-> "PartitionKey", sk_builder |-> "SortKey"],
      [pk_attribute |-> "pk", sk_attribute |-> None,
       pk_builder |-> "PersonKey", sk_builder |-> "NotKey"],
      [pk_attribute |-> "pk", sk_attribute |-> Some("sk"),
       pk_builder |-> "NotKey", sk_builder |-> "NotKey"] }

(* ---------------------------------------------------------------------- *)
(* helpers::condition_expression (the string builder Query renders with)   *)
(* ---------------------------------------------------------------------- *)
Operand_compare(self, operator, operand) ==
    self \o " " \o operator \o " " \o operand

Operand_eq(self, operand) == Operand_compare(self, "=", operand)
Operand_lt(self, operand) == Operand_compare(self, "<", operand)
(* lte rendered with the operator of lt *)
Operand_lte_AsLt(self, operand) == Operand_compare(self, "<", operand)

Operand_lte(self, operand) == Operand_compare(self, "<=", operand)
Operand_gt(self, operand) == Operand_compare(self, ">", operand)
Operand_gte(self, operand) == Operand_compare(self, ">=", operand)

Operand_between(self, from, to) ==
    self \o " BETWEEN " \o from \o " AND " \o to

begins_with(operand, substr) ==
    "begins_with (" \o operand \o ", " \o substr \o ")"

(* ---------------------------------------------------------------------- *)
(* Query: reserved placeholders and SkCondition                            *)
(* ---------------------------------------------------------------------- *)
PK_EXP_NAME == "#PK"
PK_EXP_VALUE == ":PK"
SK_EXP_NAME == "#SK"
SK_EXP_VALUE == ":SK"
BETWEEN_FROM == ":SK_FROM"
BETWEEN_TO == ":SK_TO"

SkCondition_Between(from, to) == [tag |-> "Between", from |-> from, to |-> to]
SkCondition_BeginsWith(val) == [tag |-> "BeginsWith", val |-> val]

SkCondition_expression(self) ==
    CASE self.tag = "Eq"         -> Operand_eq(SK_EXP_NAME, SK_EXP_VALUE)
      [] self.tag = "Lt"         -> Operand_lt(SK_EXP_NAME, SK_EXP_VALUE)
      [] self.tag = "Lte"        -> Operand_lte(SK_EXP_NAME, SK_EXP_VALUE)
      [] self.tag = "Gt"         -> Operand_gt(SK_EXP_NAME, SK_EXP_VALUE)
      [] self.tag = "Gte"        -> Operand_gte(SK_EXP_NAME, SK_EXP_VALUE)
      [] self.tag = "Between"    -> Operand_between(SK_EXP_NAME, BETWEEN_FROM, BETWEEN_TO)
      [] self.tag = "BeginsWith" -> begins_with(SK_EXP_NAME, SK_EXP_VALUE)

(* ---------------------------------------------------------------------- *)
(* helpers::expression::update                                             *)
(* ---------------------------------------------------------------------- *)
MaxActions == 3

(* Vec<String>::join *)
RECURSIVE join(_, _)
join(strings, sep) ==
    IF strings = <<>> THEN ""
    ELSE IF Len(strings) = 1 THEN strings[1]
         ELSE strings[1] \o sep \o join(Tail(strings), sep)

SetActionOperand_Path(operand) == [tag |-> "Path", operand |-> operand]
SetActionOperand_Function(function) == [tag |-> "Function", function |-> function]
SetActionValue_from(value) == [tag |-> "Operand", operand |-> value]

list_append(list1, list2) == [tag |-> "ListAppend", list1 |-> list1, list2 |-> list2]
if_not_exists(path, value) == [tag |-> "IfNotExists", path |-> path, value |-> value]

Update_value(self, value) == [path |-> self, value |-> value]
Update_add(self, operand) ==
    [tag |-> "Add", left |-> SetActionOperand_Path(self), right |-> operand]
Update_sub(self, operand) ==
    [tag |-> "Sub", left |-> SetActionOperand_Path(self), right |-> operand]

UpdateExpression_new == [set |-> <<>>, remove |-> <<>>, add |-> <<>>, delete |-> <<>>]

update_set(statement) == [UpdateExpression_new EXCEPT !.set = <<statement>>]
update_remove(path) == [UpdateExpression_new EXCEPT !.remove = <<[path |-> path]>>]
update_add(path, value) ==
    [UpdateExpression_new EXCEPT !.add = <<[path |-> path, value |-> value]>>]
update_delete(path, subset) ==
    [UpdateExpression_new EXCEPT !.delete = <<[path |-> path, subset |-> subset]>>]

(* and that takes the other expression's items of a kind in place of its own *)
UpdateExpression_and_OtherWins(self, other) ==
    [set    |-> IF other.set # <<>> THEN other.set ELSE self.set,
     remove |-> IF other.remove # <<>> THEN other.remove ELSE self.remove,
     add    |-> IF other.add # <<>> THEN other.add ELSE self.add,
     delete |-> IF other.delete # <<>> THEN other.delete ELSE self.delete]

(* and that puts the other expression's items first *)
UpdateExpression_and_OtherFirst(self, other) ==
    [set    |-> other.set \o self.set,
     remove |-> other.remove \o self.remove,
     add    |-> other.add \o self.add,
     delete |-> other.delete \o self.delete]

UpdateExpression_and(self, other) ==
    [set    |-> self.set \o other.set,
     remove |-> self.remove \o other.remove,
     add    |-> self.add \o other.add,
     delete |-> self.delete \o other.delete]

SetActionFunction_fmt(self) ==
    CASE self.tag = "ListAppend" ->
             "list_append (" \o self.list1 \o ", " \o self.list2 \o ")"
      [] self.tag = "IfNotExists" ->
             "if_not_exists (" \o self.path \o ", " \o self.value \o ")"

SetActionOperand_fmt(self) ==
    CASE self.tag = "Path" -> self.operand
      [] self.tag = "Function" -> SetActionFunction_fmt(self.function)

SetActionValue_fmt(self) ==
    CASE self.tag = "Operand" -> SetActionOperand_fmt(self.operand)
      [] self.tag = "Add" ->
             SetActionOperand_fmt(self.left) \o " + " \o SetActionOperand_fmt(self.right)
      [] self.tag = "Sub" ->
             SetActionOperand_fmt(self.left) \o " - " \o SetActionOperand_fmt(self.right)

SetAction_fmt(self) == self.path \o " = " \o SetActionValue_fmt(self.value)
RemoveAction_fmt(self) == self.path
AddAction_fmt(self) == self.path \o " " \o self.value
DeleteAction_fmt(self) == self.path \o " " \o self.subset

(* .iter().map(|v| v.to_string()).collect::<Vec<String>>() *)
SetActions_to_strings(actions) == [i \in 1..Len(actions) |-> SetAction_fmt(actions[i])]
RemoveActions_to_strings(actions) ==
    [i \in 1..Len(actions) |-> RemoveAction_fmt(actions[i])]
AddActions_to_strings(actions) == [i \in 1..Len(actions) |-> AddAction_fmt(actions[i])]
DeleteActions_to_strings(actions) ==
    [i \in 1..Len(actions) |-> DeleteAction_fmt(actions[i])]

(* Display that writes the ADD segment before the REMOVE segment *)
UpdateExpression_fmt_AddBeforeRemove(self) ==
    LET set_actions == IF self.set # <<>>
            THEN <<"SET " \o join(SetActions_to_strings(self.set), ", ")>> ELSE <<>>
        add_actions == IF self.add # <<>>
            THEN <<"ADD " \o join(AddActions_to_strings(self.add), ", ")>> ELSE <<>>
        remove_actions == IF self.remove # <<>>
            THEN <<"REMOVE " \o join(RemoveActions_to_strings(self.remove), ", ")>> ELSE <<>>
        delete_actions == IF self.delete # <<>>
            THEN <<"DELETE " \o join(DeleteActions_to_strings(self.delete), ", ")>> ELSE <<>>
    IN  join(set_actions \o add_actions \o remove_actions \o delete_actions, " ")

UpdateExpression_fmt(self) ==
    LET set_actions == IF self.set # <<>>
            THEN <<"SET " \o join(SetActions_to_strings(self.set), ", ")>> ELSE <<>>
        remove_actions == IF self.remove # <<>>
            THEN <<"REMOVE " \o join(RemoveActions_to_strings(self.remove), ", ")>> ELSE <<>>
        add_actions == IF self.add # <<>>
            THEN <<"ADD " \o join(AddActions_to_strings(self.add), ", ")>> ELSE <<>>
        delete_actions == IF self.delete # <<>>
            THEN <<"DELETE " \o join(DeleteActions_to_strings(self.delete), ", ")>> ELSE <<>>
    IN  join(set_actions \o remove_actions \o add_actions \o delete_actions, " ")

(* format!("{condition}") *)
From_UpdateExpression_for_String(condition) == UpdateExpression_fmt(condition)

(* the statements, paths and operands the expressions are built from *)
SetActions ==
    << Update_value("#x", SetActionValue_from(SetActionOperand_Path(":x"))),
       Update_value("#y", Update_add(":a", SetActionOperand_Path(":b"))),
       Update_value("#y", Update_sub(":a", SetActionOperand_Path(":b"))),
       Update_value("#ri", SetActionValue_from(
           SetActionOperand_Function(list_append("#ri", ":vals")))),
       Update_value("Price", SetActionValue_from(
           SetActionOperand_Function(if_not_exists("Price", ":p")))) >>

RemovePaths == <<"#x", "#y">>
AddOperands == << <<"#x", ":x">> >>
DeleteOperands == << <<"#y", ":y">> >>

NoUpdateExpressions ==
    [a |-> UpdateExpression_new, b |-> UpdateExpression_new, c |-> UpdateExpression_new]

(* ---------------------------------------------------------------------- *)
(* helpers::condition_expression: the rest of the string builder; an       *)
(* Expression is the text it wraps                                         *)
(* ---------------------------------------------------------------------- *)
Operand_ne(self, operand) == Operand_compare(self, "<>", operand)

Operand_any(self, operands) == self \o " IN (" \o join(operands, ", ") \o ")"

Expression_connect(self, operator, expr) == self \o " " \o operator \o " " \o expr
Expression_and(self, expr) == Expression_connect(self, "AND", expr)
Expression_or(self, expr) == Expression_connect(self, "OR", expr)

(* wrap that pads the expression with spaces inside the parentheses *)
wrap_Padded(expr) == "( " \o expr \o " )"

wrap(expr) == "(" \o expr \o ")"

not(expr) == "NOT " \o expr

expression_attribute_exists(operand) == "attribute_exists (" \o operand \o ")"
expression_attribute_not_exists(operand) == "attribute_not_exists (" \o operand \o ")"
expression_attribute_type(operand, ty) ==
    "attribute_type (" \o operand \o ", " \o ty \o ")"
expression_contains(path, operand) == "contains (" \o path \o ", " \o operand \o ")"
size(operand) == "size (" \o operand \o ")"

(* From<Expression> for String returns the text; Display writes it *)
From_Expression_for_String(expr) == expr
Expression_fmt(self) == self

(* the Operand method and the function of a given name *)
Operand_method(method, self, operand) ==
    CASE method = "equal" -> Operand_eq(self, operand)
      [] method = "ne"    -> Operand_ne(self, operand)
      [] method = "lt"    -> Operand_lt(self, operand)
      [] method = "lte"   -> Operand_lte(self, operand)
      [] method = "gt"    -> Operand_gt(self, operand)
      [] method = "gte"   -> Operand_gte(self, operand)

expression_function(name, path, operand) ==
    CASE name = "attribute_exists"     -> expression_attribute_exists(path)
      [] name = "attribute_not_exists" -> expression_attribute_not_exists(path)
      [] name = "attribute_type"       -> expression_attribute_type(path, operand)
      [] name = "begins_with"          -> begins_with(path, operand)
      [] name = "contains"             -> expression_contains(path, operand)

(* ---------------------------------------------------------------------- *)
(* helpers::expression::condition                                          *)
(* ---------------------------------------------------------------------- *)
MaxDepth == 3

condition_size(operand) == "size (" \o operand \o ")"

Condition_equal(self, operand) ==
    [tag |-> "Compare", left |-> self, right |-> operand, comperator |-> "Eq"]
Condition_ne(self, operand) ==
    [tag |-> "Compare", left |-> self, right |-> operand, comperator |-> "Ne"]
Condition_lt(self, operand) ==
    [tag |-> "Compare", left |-> self, right |-> operand, comperator |-> "Lt"]
Condition_lte(self, operand) ==
    [tag |-> "Compare", left |-> self, right |-> operand, comperator |-> "Lte"]
Condition_gt(self, operand) ==
    [tag |-> "Compare", left |-> self, right |-> operand, comperator |-> "Gt"]
Condition_gte(self, operand) ==
    [tag |-> "Compare", left |-> self, right |-> operand, comperator |-> "Gte"]
Condition_between(self, from, to) ==
    [tag |-> "Between", operand |-> self, from |-> from, to |-> to]
(* any that collects the values last to first *)
Condition_any_Reversed(self, values) ==
    [tag |-> "Any", operand |-> self,
     values |-> [i \in 1..Len(values) |-> values[Len(values) + 1 - i]]]

Condition_any(self, values) == [tag |-> "Any", operand |-> self, values |-> values]

(* and that re-associates a right operand that is itself an And to the left *)
ConditionExpression_and_LeftNested(self, expr) ==
    IF expr.tag = "And"
    THEN [tag |-> "And",
          left |-> [tag |-> "And", left |-> self, right |-> expr.left],
          right |-> expr.right]
    ELSE [tag |-> "And", left |-> self, right |-> expr]

ConditionExpression_and(self, expr) == [tag |-> "And", left |-> self, right |-> expr]

ConditionExpression_or(self, expr) == [tag |-> "Or", left |-> self, right |-> expr]
condition_not(condition_expression) == [tag |-> "Not", expr |-> condition_expression]
condition_paren(condition_expression) ==
    [tag |-> "Parentheses", expr |-> condition_expression]

attribute_exists(operand) ==
    [tag |-> "Function", function |-> [tag |-> "AttributeExists", operand |-> operand]]
attribute_not_exists(operand) ==
    [tag |-> "Function", function |-> [tag |-> "AttributeNotExists", operand |-> operand]]
attribute_type(path, type) ==
    [tag |-> "Function",
     function |-> [tag |-> "AttributeType", path |-> path, type |-> type]]
condition_begins_with(path, substr) ==
    [tag |-> "Function",
     function |-> [tag |-> "BeginsWith", path |-> path, substr |-> substr]]
contains(path, operand) ==
    [tag |-> "Function",
     function |-> [tag |-> "Contains", path |-> path, operand |-> operand]]

(* Display that writes "<" for Lte *)
Comperator_fmt_LteAsLt(self) ==
    CASE self = "Eq"  -> "="
      [] self = "Ne"  -> "<>"
      [] self = "Lt"  -> "<"
      [] self = "Lte" -> "<"
      [] self = "Gt"  -> ">"
      [] self = "Gte" -> ">="

Comperator_fmt(self) ==
    CASE self = "Eq"  -> "="
      [] self = "Ne"  -> "<>"
      [] self = "Lt"  -> "<"
      [] self = "Lte" -> "<="
      [] self = "Gt"  -> ">"
      [] self = "Gte" -> ">="

(* Display that leaves out the space between the name and the arguments *)
ConditionalFunction_fmt_NoSpace(self) ==
    CASE self.tag = "AttributeExists" -> "attribute_exists(" \o self.operand \o ")"
      [] self.tag = "AttributeNotExists" ->
             "attribute_not_exists(" \o self.operand \o ")"
      [] self.tag = "AttributeType" ->
             "attribute_type(" \o self.path \o ", " \o self.type \o ")"
      [] self.tag = "BeginsWith" ->
             "begins_with(" \o self.path \o ", " \o self.substr \o ")"
      [] self.tag = "Contains" ->
             "contains(" \o self.path \o ", " \o self.operand \o ")"

ConditionalFunction_fmt(self) ==
    CASE self.tag = "AttributeExists" -> "attribute_exists (" \o self.operand \o ")"
      [] self.tag = "AttributeNotExists" ->
             "attribute_not_exists (" \o self.operand \o ")"
      [] self.tag = "AttributeType" ->
             "attribute_type (" \o self.path \o ", " \o self.type \o ")"
      [] self.tag = "BeginsWith" ->
             "begins_with (" \o self.path \o ", " \o self.substr \o ")"
      [] self.tag = "Contains" ->
             "contains (" \o self.path \o ", " \o self.operand \o ")"

(* Display that wraps the operands of AND and OR in parentheses *)
RECURSIVE ConditionExpression_fmt_GroupsOperands(_)
ConditionExpression_fmt_GroupsOperands(self) ==
    CASE self.tag = "Compare" ->
             self.left \o " " \o Comperator_fmt(self.comperator) \o " " \o self.right
      [] self.tag = "Between" ->
             self.operand \o " BETWEEN " \o self.from \o " AND " \o self.to
      [] self.tag = "Any" ->
             self.operand \o " IN (" \o join(self.values, ", ") \o ")"
      [] self.tag = "Function" -> ConditionalFunction_fmt(self.function)
      [] self.tag = "And" ->
             "(" \o ConditionExpression_fmt_GroupsOperands(self.left) \o ") AND ("
                 \o ConditionExpression_fmt_GroupsOperands(self.right) \o ")"
      [] self.tag = "Or" ->
             "(" \o ConditionExpression_fmt_GroupsOperands(self.left) \o ") OR ("
                 \o ConditionExpression_fmt_GroupsOperands(self.right) \o ")"
      [] self.tag = "Not" -> "NOT " \o ConditionExpression_fmt_GroupsOperands(self.expr)
      [] self.tag = "Parentheses" -> "(" \o ConditionExpression_fmt_GroupsOperands(self.expr) \o ")"

(* Display that wraps the operand of NOT in parentheses *)
RECURSIVE ConditionExpression_fmt_NotGroups(_)
ConditionExpression_fmt_NotGroups(self) ==
    CASE self.tag = "Compare" ->
             self.left \o " " \o Comperator_fmt(self.comperator) \o " " \o self.right
      [] self.tag = "Between" ->
             self.operand \o " BETWEEN " \o self.from \o " AND " \o self.to
      [] self.tag = "Any" ->
             self.operand \o " IN (" \o join(self.values, ", ") \o ")"
      [] self.tag = "Function" -> ConditionalFunction_fmt(self.function)
      [] self.tag = "And" ->
             ConditionExpression_fmt_NotGroups(self.left) \o " AND "
                 \o ConditionExpression_fmt_NotGroups(self.right)
      [] self.tag = "Or" ->
             ConditionExpression_fmt_NotGroups(self.left) \o " OR "
                 \o ConditionExpression_fmt_NotGroups(self.right)
      [] self.tag = "Not" -> "NOT (" \o ConditionExpression_fmt_NotGroups(self.expr) \o ")"
      [] self.tag = "Parentheses" -> "(" \o ConditionExpression_fmt_NotGroups(self.expr) \o ")"

RECURSIVE ConditionExpression_fmt(_)
ConditionExpression_fmt(self) ==
    CASE self.tag = "Compare" ->
             self.left \o " " \o Comperator_fmt(self.comperator) \o " " \o self.right
      [] self.tag = "Between" ->
             self.operand \o " BETWEEN " \o self.from \o " AND " \o self.to
      [] self.tag = "Any" ->
             self.operand \o " IN (" \o join(self.values, ", ") \o ")"
      [] self.tag = "Function" -> ConditionalFunction_fmt(self.function)
      [] self.tag = "And" ->
             ConditionExpression_fmt(self.left) \o " AND "
                 \o ConditionExpression_fmt(self.right)
      [] self.tag = "Or" ->
             ConditionExpression_fmt(self.left) \o " OR "
                 \o ConditionExpression_fmt(self.right)
      [] self.tag = "Not" -> "NOT " \o ConditionExpression_fmt(self.expr)
      [] self.tag = "Parentheses" -> "(" \o ConditionExpression_fmt(self.expr) \o ")"

(* From that writes the operands of AND and OR in parentheses *)
From_ConditionExpression_for_String_Grouped(condition) ==
    ConditionExpression_fmt_GroupsOperands(condition)

(* format!("{condition}") *)
From_ConditionExpression_for_String(condition) == ConditionExpression_fmt(condition)

RECURSIVE ConditionExpression_depth(_)
ConditionExpression_depth(self) ==
    CASE self.tag \in {"And", "Or"} ->
             LET l == ConditionExpression_depth(self.left)
                 r == ConditionExpression_depth(self.right)
             IN  1 + (IF l > r THEN l ELSE r)
      [] self.tag \in {"Not", "Parentheses"} -> 1 + ConditionExpression_depth(self.expr)
      [] OTHER -> 1

(* the methods and operands the conditions are built from *)
Comparisons == {"equal", "ne", "lt", "lte", "gt", "gte"}

Condition_compare(method, self, operand) ==
    CASE method = "equal" -> Condition_equal(self, operand)
      [] method = "ne"    -> Condition_ne(self, operand)
      [] method = "lt"    -> Condition_lt(self, operand)
      [] method = "lte"   -> Condition_lte(self, operand)
      [] method = "gt"    -> Condition_gt(self, operand)
      [] method = "gte"   -> Condition_gte(self, operand)

Functions ==
    {"attribute_exists", "attribute_not_exists", "attribute_type", "begins_with",
     "contains"}

conditional_function(name, path, operand) ==
    CASE name = "attribute_exists"     -> attribute_exists(path)
      [] name = "attribute_not_exists" -> attribute_not_exists(path)
      [] name = "attribute_type"       -> attribute_type(path, operand)
      [] name = "begins_with"          -> condition_begins_with(path, operand)
      [] name = "contains"             -> contains(path, operand)

LeftOperands == {"#x", condition_size("Brand")}
RightOperands == {":x"}

(* the expressions handed to and / or as the other operand *)
OtherConditions ==
    { Condition_equal("#y", ":y"),
      ConditionExpression_or(Condition_equal("#y", ":y"), Condition_equal("#z", ":z")),
      condition_paren(ConditionExpression_or(Condition_equal("#y", ":y"),
                                             Condition_equal("#z", ":z"))) }

(* the value collections handed to any: none, one, and two in either order *)
AnyValues == {<<>>, <<":a">>, <<":a", ":b">>, <<":b", ":a">>}

NoCondition == [expr |-> None, last |-> None]

(* ---------------------------------------------------------------------- *)
(* State                                                                   *)
(* ---------------------------------------------------------------------- *)
VARIABLES
    op,         \* the operation this behaviour builds and sends
    table,      \* the DynamodbTable declaration the builders are made from
    query,      \* QueryOperation
    get,        \* GetItemOperation
    update,     \* UpdateItemOperation
    delete,     \* DeleteItemOperation
    put,        \* PutItemOperation
    output,     \* the QueryOutput handed to TryFrom<QueryOutput>
    uexp,       \* three UpdateExpression values a, b, c under construction
    cexp,       \* the ConditionExpression under construction and the last call
    sexp,       \* the Expression the string builder gives for the same calls
    pc,         \* "building", "panicked" (send unwound) or "done" (send returned)
    transport,  \* requests handed to send_with(client), in order
    result,     \* what send returned
    hist        \* inputs of the last key setter calls

vars == <<op, table, query, get, update, delete, put, output, uexp, cexp, sexp, pc,
          transport, result, hist>>

(* the state of the functions that are exercised on their own *)
pure == <<output, uexp, cexp, sexp>>

Operations == {"Query", "GetItem", "UpdateItem", "DeleteItem", "PutItem"}

(* the partition key is not set: expect() / panic!() unwinds *)
Panic == [panic |-> "Partition key is not set"]

(* ---------------------------------------------------------------------- *)
(* Query: key-condition compiler                                           *)
(* ---------------------------------------------------------------------- *)
Query_pk_condtion_expression(self) == Operand_eq(PK_EXP_NAME, PK_EXP_VALUE)

(* renders the sort condition without looking at the declared sort-key attribute *)
Query_sk_condition_expression_NoSchemaCheck(self) ==
    IF self.sk.some
    THEN Some(SkCondition_expression(self.sk.v))
    ELSE None

Query_sk_condition_expression(self) ==
    IF self.sk_attribute.some /\ self.sk.some
    THEN Some(SkCondition_expression(self.sk.v))
    ELSE None

Query_key_condition_expression(self) ==
    LET pk_expr == Query_pk_condtion_expression(self)
        sk_expr == Query_sk_condition_expression(self)
    IN  IF sk_expr.some THEN pk_expr \o " AND " \o sk_expr.v ELSE pk_expr

(* names the sort key whenever the table declares one, set or not *)
Query_key_expression_attribute_names_AlwaysSk(self) ==
    LET names == HashMap_insert(EmptyMap, PK_EXP_NAME, self.pk_attribute)
    IN  IF self.sk_attribute.some
        THEN HashMap_insert(names, SK_EXP_NAME, self.sk_attribute.v)
        ELSE names

Query_key_expression_attribute_names(self) ==
    LET names == HashMap_insert(EmptyMap, PK_EXP_NAME, self.pk_attribute)
    IN  IF self.sk_attribute.some /\ self.sk.some
        THEN HashMap_insert(names, SK_EXP_NAME, self.sk_attribute.v)
        ELSE names

(* binds the two bounds of Between under each other's alias *)
Query_key_expression_attribute_values_SwapsBounds(self) ==
    IF ~self.pk.some THEN Panic
    ELSE LET map == HashMap_insert(EmptyMap, PK_EXP_VALUE, self.pk.v)
         IN  IF self.sk_attribute.some /\ self.sk.some
             THEN IF self.sk.v.tag = "Between"
                  THEN HashMap_insert(
                           HashMap_insert(map, BETWEEN_FROM, self.sk.v.to),
                           BETWEEN_TO, self.sk.v.from)
                  ELSE HashMap_insert(map, SK_EXP_VALUE, self.sk.v.val)
             ELSE map

Query_key_expression_attribute_values(self) ==
    IF ~self.pk.some THEN Panic
    ELSE LET map == HashMap_insert(EmptyMap, PK_EXP_VALUE, self.pk.v)
         IN  IF self.sk_attribute.some /\ self.sk.some
             THEN IF self.sk.v.tag = "Between"
                  THEN HashMap_insert(
                           HashMap_insert(map, BETWEEN_FROM, self.sk.v.from),
                           BETWEEN_TO, self.sk.v.to)
                  ELSE HashMap_insert(map, SK_EXP_VALUE, self.sk.v.val)
             ELSE map

(* sends the generated name bindings alone, without the caller's map *)
Query_expression_attribute_names_KeyOnly(self) ==
    Query_key_expression_attribute_names(self)

Query_expression_attribute_names(self) ==
    HashMap_extend(unwrap_or_default(self.input_builder.expression_attribute_names),
                   Query_key_expression_attribute_names(self))

Query_expression_attribute_values(self) ==
    LET key_values == Query_key_expression_attribute_values(self)
    IN  IF key_values = Panic THEN Panic
        ELSE HashMap_extend(
                 unwrap_or_default(self.input_builder.expression_attribute_values),
                 key_values)

(* ---------------------------------------------------------------------- *)
(* Inputs the caller can pass                                              *)
(* ---------------------------------------------------------------------- *)
BoundedSubsets(S) == {T \in SUBSET S : Cardinality(T) <= MaxCallerKeys}

(* filter placeholder maps of the caller; they may reuse the reserved words *)
CallerNames ==
    UNION {[T -> {"foo"}] : T \in BoundedSubsets({"#v", PK_EXP_NAME, SK_EXP_NAME})}

CallerValues ==
    UNION {[T -> {AttributeValue_S("bar")}] :
              T \in BoundedSubsets({":v", PK_EXP_VALUE, SK_EXP_VALUE,
                                    BETWEEN_FROM, BETWEEN_TO})}

(* already encoded values handed to sk_begins_with *)
BeginsWithValues == {AttributeValue_S("SK#" \o ToString(i)) : i \in Inputs}

(* the shape of a sort-key value held by a builder: which value aliases it binds *)
SkShape(sk) ==
    IF ~sk.some THEN "none"
    ELSE IF "tag" \in DOMAIN sk.v /\ sk.v.tag = "Between" THEN "between"
    ELSE "single"

(* record of the last sort-key setter call and of the shape it replaced *)
SkCall(method, args, replaced) ==
    [hist EXCEPT !.sk_call = Some([method |-> method, args |-> args]),
                 !.sk_prev = SkShape(replaced)]

(* ---------------------------------------------------------------------- *)
(* Query: construction and fluent setters                                  *)
(* ---------------------------------------------------------------------- *)
Query_query(t) ==
    [pk_attribute |-> t.pk_attribute,
     sk_attribute |-> t.sk_attribute,
     pk |-> None,
     sk |-> None,
     input_builder |-> [index_name |-> None,
                        limit |-> None,
                        scan_index_forward |-> None,
                        filter_expression |-> None,
                        expression_attribute_names |-> None,
                        expression_attribute_values |-> None]]

QueryBuilding == op = "Query" /\ pc = "building"

(* pk_eq that builds the new value without the stored sort condition *)
QueryOperation_pk_eq_DropsSk(self, inputs) ==
    [self EXCEPT !.pk = KeyBuilder_build(table.pk_builder, inputs), !.sk = None]

(* Self { pk: PkBuilder::build(inputs), ..self } *)
QueryOperation_pk_eq(self, inputs) ==
    [self EXCEPT !.pk = KeyBuilder_build(table.pk_builder, inputs)]

pk_eq(inputs) ==
    /\ QueryBuilding
    /\ query' = QueryOperation_pk_eq(query, inputs)
    /\ hist' = [hist EXCEPT !.pk_in = Some(inputs)]
    /\ UNCHANGED <<op, table, put, pure, get, update, delete, pc, transport, result>>

Option_map_Sk(o, tag) == IF o.some THEN Some([tag |-> tag, val |-> o.v]) ELSE None

(* the sort-condition setters as functions of the builder: Self { sk: .., ..self } *)
QueryOperation_sk_eq(self, inputs) ==
    [self EXCEPT !.sk = Option_map_Sk(KeyBuilder_build(table.sk_builder, inputs), "Eq")]

QueryOperation_sk_lt(self, inputs) ==
    [self EXCEPT !.sk = Option_map_Sk(KeyBuilder_build(table.sk_builder, inputs), "Lt")]

QueryOperation_sk_lte(self, inputs) ==
    [self EXCEPT !.sk = Option_map_Sk(KeyBuilder_build(table.sk_builder, inputs), "Lte")]

QueryOperation_sk_gt(self, inputs) ==
    [self EXCEPT !.sk = Option_map_Sk(KeyBuilder_build(table.sk_builder, inputs), "Gt")]

QueryOperation_sk_gte(self, inputs) ==
    [self EXCEPT !.sk = Option_map_Sk(KeyBuilder_build(table.sk_builder, inputs), "Gte")]

QueryOperation_sk_between(self, from, to) ==
    LET f == KeyBuilder_build(table.sk_builder, from)
        t == KeyBuilder_build(table.sk_builder, to)
        condition == IF f.some /\ t.some
                     THEN Some(SkCondition_Between(f.v, t.v)) ELSE None
    IN  [self EXCEPT !.sk = condition]

QueryOperation_sk_begins_with(self, value) ==
    [self EXCEPT !.sk = Some(SkCondition_BeginsWith(value))]

(* sk_eq that keeps a condition already set instead of replacing it *)
sk_eq_KeepsPrevious(inputs) ==
    /\ QueryBuilding
    /\ query' = [query EXCEPT
                    !.sk = IF query.sk.some THEN query.sk
                           ELSE Option_map_Sk(
                                    KeyBuilder_build(table.sk_builder, inputs), "Eq")]
    /\ hist' = SkCall("sk_eq", <<inputs>>, query.sk)
    /\ UNCHANGED <<op, table, put, pure, get, update, delete, pc, transport, result>>

sk_eq(inputs) ==
    /\ QueryBuilding
    /\ query' = QueryOperation_sk_eq(query, inputs)
    /\ hist' = SkCall("sk_eq", <<inputs>>, query.sk)
    /\ UNCHANGED <<op, table, put, pure, get, update, delete, pc, transport, result>>

sk_lt(inputs) ==
    /\ QueryBuilding
    /\ query' = QueryOperation_sk_lt(query, inputs)
    /\ hist' = SkCall("sk_lt", <<inputs>>, query.sk)
    /\ UNCHANGED <<op, table, put, pure, get, update, delete, pc, transport, result>>

sk_lte(inputs) ==
    /\ QueryBuilding
    /\ query' = QueryOperation_sk_lte(query, inputs)
    /\ hist' = SkCall("sk_lte", <<inputs>>, query.sk)
    /\ UNCHANGED <<op, table, put, pure, get, update, delete, pc, transport, result>>

sk_gt(inputs) ==
    /\ QueryBuilding
    /\ query' = QueryOperation_sk_gt(query, inputs)
    /\ hist' = SkCall("sk_gt", <<inputs>>, query.sk)
    /\ UNCHANGED <<op, table, put, pure, get, update, delete, pc, transport, result>>

sk_gte(inputs) ==
    /\ QueryBuilding
    /\ query' = QueryOperation_sk_gte(query, inputs)
    /\ hist' = SkCall("sk_gte", <<inputs>>, query.sk)
    /\ UNCHANGED <<op, table, put, pure, get, update, delete, pc, transport, result>>

(* sk_between that leaves the stored condition alone when a bound has no value *)
sk_between_KeepsPrevious(from, to) ==
    /\ QueryBuilding
    /\ LET f == KeyBuilder_build(table.sk_builder, from)
           t == KeyBuilder_build(table.sk_builder, to)
       IN  query' = [query EXCEPT
                        !.sk = IF f.some /\ t.some
                               THEN Some(SkCondition_Between(f.v, t.v)) ELSE query.sk]
    /\ hist' = SkCall("sk_between", <<from, to>>, query.sk)
    /\ UNCHANGED <<op, table, put, pure, get, update, delete, pc, transport, result>>

sk_between(from, to) ==
    /\ QueryBuilding
    /\ query' = QueryOperation_sk_between(query, from, to)
    /\ hist' = SkCall("sk_between", <<from, to>>, query.sk)
    /\ UNCHANGED <<op, table, put, pure, get, update, delete, pc, transport, result>>

sk_begins_with(value) ==
    /\ QueryBuilding
    /\ query' = QueryOperation_sk_begins_with(query, value)
    /\ hist' = SkCall("sk_begins_with", <<value>>, query.sk)
    /\ UNCHANGED <<op, table, put, pure, get, update, delete, pc, transport, result>>

limit(n) ==
    /\ QueryBuilding
    /\ query' = [query EXCEPT !.input_builder.limit = Some(n)]
    /\ UNCHANGED <<op, table, put, pure, get, update, delete, pc, transport, result, hist>>

(* index that hands the name to the builder's filter_expression *)
index_SetsFilterExpression(name) ==
    /\ QueryBuilding
    /\ query' = [query EXCEPT !.input_builder.filter_expression = Some(name)]
    /\ UNCHANGED <<op, table, put, pure, get, update, delete, pc, transport, result, hist>>

index(name) ==
    /\ QueryBuilding
    /\ query' = [query EXCEPT !.input_builder.index_name = Some(name)]
    /\ UNCHANGED <<op, table, put, pure, get, update, delete, pc, transport, result, hist>>

scan_index_forward(forward) ==
    /\ QueryBuilding
    /\ query' = [query EXCEPT !.input_builder.scan_index_forward = Some(forward)]
    /\ UNCHANGED <<op, table, put, pure, get, update, delete, pc, transport, result, hist>>

filter_expression(expr) ==
    /\ QueryBuilding
    /\ query' = [query EXCEPT !.input_builder.filter_expression = Some(expr)]
    /\ UNCHANGED <<op, table, put, pure, get, update, delete, pc, transport, result, hist>>

filter_expression_attribute_names(names) ==
    /\ QueryBuilding
    /\ query' = [query EXCEPT
                    !.input_builder.expression_attribute_names = Some(names)]
    /\ UNCHANGED <<op, table, put, pure, get, update, delete, pc, transport, result, hist>>

filter_expression_attribute_values(values) ==
    /\ QueryBuilding
    /\ query' = [query EXCEPT
                    !.input_builder.expression_attribute_values = Some(values)]
    /\ UNCHANGED <<op, table, put, pure, get, update, delete, pc, transport, result, hist>>

(* ---------------------------------------------------------------------- *)
(* What the transport answers, and the conversion of items into records    *)
(* ---------------------------------------------------------------------- *)
MaxItems == 3

Error_Sdk == [tag |-> "Err", error |-> "Sdk"]
Error_Conversion == [tag |-> "Err", error |-> "Conversion"]
Ok(v) == [tag |-> "Ok", v |-> v]
NoResult == [tag |-> "none"]

(* Err(SdkError) of send_with, and the Err(BoxError) of a record conversion *)
SdkError == [tag |-> "Err", error |-> "SdkError"]
BoxError == [tag |-> "Err", error |-> "BoxError"]

Options(S) == {None} \cup {Some(x) : x \in S}
BoundedSeqs(S, n) == UNION {[1..k -> S] : k \in 0..n}

(* items of the store: the item of the record with a given id, and an item *)
(* without the "id" attribute, which no record can be made from            *)
Item_of(id) == ("id" :> AttributeValue_S(ToString(id)))
Item_without_id == ("name" :> AttributeValue_S("Tanaka"))
Items(ids) == {Item_of(id) : id \in ids} \cup {Item_without_id}

T_try_from(item) ==
    IF "id" \in DOMAIN item THEN Ok([id |-> item["id"].S]) ELSE BoxError

LastEvaluatedKey == ("pk" :> AttributeValue_S("PERSON#" \o ToString(FirstInput)))

QueryOutputs(ids, n) ==
    { [items |-> items, last_evaluated_key |-> key] :
          items \in Options(BoundedSeqs(Items(ids), n)),
          key \in Options({LastEvaluatedKey}) }

Vec_unwrap_or_default(o) == IF o.some THEN o.v ELSE <<>>

(* the loop that leaves out an item that does not convert and goes on *)
RECURSIVE QueryOperationOutput_items_SkipsFailed(_, _)
QueryOperationOutput_items_SkipsFailed(rest, items) ==
    IF rest = <<>> THEN Ok(items)
    ELSE LET converted == T_try_from(Head(rest))
         IN  IF converted.tag = "Err"
             THEN QueryOperationOutput_items_SkipsFailed(Tail(rest), items)
             ELSE QueryOperationOutput_items_SkipsFailed(Tail(rest),
                                                         Append(items, converted.v))

(* the for loop of try_from: push each converted item, `?` on the first failure *)
RECURSIVE QueryOperationOutput_items(_, _)
QueryOperationOutput_items(rest, items) ==
    IF rest = <<>> THEN Ok(items)
    ELSE LET converted == T_try_from(Head(rest))
         IN  IF converted.tag = "Err"
             THEN Error_Conversion
             ELSE QueryOperationOutput_items(Tail(rest), Append(items, converted.v))

QueryOperationOutput_try_from(o) ==
    LET items == QueryOperationOutput_items(Vec_unwrap_or_default(o.items), <<>>)
    IN  IF items.tag = "Err" THEN items
        ELSE Ok([items |-> items.v, last_evaluated_key |-> o.last_evaluated_key])

(* .map(T::try_from).transpose().map_err(Error::Conversion) *)
Option_map_try_from(o) ==
    IF ~o.some THEN Ok(None)
    ELSE LET converted == T_try_from(o.v)
         IN  IF converted.tag = "Err" THEN Error_Conversion ELSE Ok(Some(converted.v))

(* what send_with(client).await yields for each operation *)
Outputs(operation) ==
    CASE operation = "Query"   -> QueryOutputs({FirstInput}, 1)
      [] operation = "GetItem" -> {[item |-> i] : i \in Options(Items({FirstInput}))}
      [] OTHER -> {[attributes |-> a] : a \in Options(Items({FirstInput}))}

Responses(operation) == {SdkError} \cup {Ok(o) : o \in Outputs(operation)}

ReturnValues == Options({"ALL_NEW", "ALL_OLD", "NONE", "UPDATED_NEW", "UPDATED_OLD"})

(* send that asks again when the response carries a last-evaluated key *)
Query_send_FollowsLastEvaluatedKey(response) ==
    /\ QueryBuilding
    /\ LET key_condition_expression == Query_key_condition_expression(query)
           expression_attribute_names == Query_expression_attribute_names(query)
           expression_attribute_values == Query_expression_attribute_values(query)
       IN  IF expression_attribute_values = Panic
           THEN /\ pc' = "panicked"
                /\ UNCHANGED <<transport, result, hist>>
           ELSE /\ LET request ==
                           [op |-> "Query",
                            key_condition_expression |-> key_condition_expression,
                            expression_attribute_names |-> Some(expression_attribute_names),
                            expression_attribute_values |-> Some(expression_attribute_values)]
                   IN  transport' =
                           IF response.tag = "Ok" /\ response.v.last_evaluated_key.some
                           THEN Append(Append(transport, request), request)
                           ELSE Append(transport, request)
                /\ result' = IF response.tag = "Err" THEN Error_Sdk
                             ELSE QueryOperationOutput_try_from(response.v)
                /\ pc' = "done"
                /\ hist' = [hist EXCEPT !.response = Some(response)]
    /\ UNCHANGED <<op, table, put, pure, query, get, update, delete>>

Query_send(response) ==
    /\ QueryBuilding
    /\ LET key_condition_expression == Query_key_condition_expression(query)
           expression_attribute_names == Query_expression_attribute_names(query)
           expression_attribute_values == Query_expression_attribute_values(query)
       IN  IF expression_attribute_values = Panic
           THEN /\ pc' = "panicked"
                /\ UNCHANGED <<transport, result, hist>>
           ELSE /\ transport' = Append(transport,
                       [op |-> "Query",
                        key_condition_expression |-> key_condition_expression,
                        expression_attribute_names |-> Some(expression_attribute_names),
                        expression_attribute_values |-> Some(expression_attribute_values)])
                /\ result' = IF response.tag = "Err" THEN Error_Sdk
                             ELSE QueryOperationOutput_try_from(response.v)
                /\ pc' = "done"
                /\ hist' = [hist EXCEPT !.response = Some(response)]
    /\ UNCHANGED <<op, table, put, pure, query, get, update, delete>>

(* ---------------------------------------------------------------------- *)
(* GetItem                                                                 *)
(* ---------------------------------------------------------------------- *)
GetItem_get_item(t) ==
    [pk_attribute |-> t.pk_attribute,
     sk_attribute |-> t.sk_attribute,
     pk |-> None,
     sk |-> None]

(* keys that goes on with an empty item when the partition key is not set *)
GetItem_keys_NoPanic(self) ==
    LET item == IF self.pk.some
                THEN HashMap_insert(EmptyMap, self.pk_attribute, self.pk.v)
                ELSE EmptyMap
    IN  IF self.sk_attribute.some /\ self.sk.some
        THEN HashMap_insert(item, self.sk_attribute.v, self.sk.v)
        ELSE item

(* keys that merges a sort-key value also when no sort-key attribute is declared *)
GetItem_keys_MergesStraySk(self) ==
    IF ~self.pk.some THEN Panic
    ELSE LET item == HashMap_insert(EmptyMap, self.pk_attribute, self.pk.v)
         IN  IF self.sk.some
             THEN HashMap_insert(item,
                      IF self.sk_attribute.some THEN self.sk_attribute.v ELSE "sk",
                      self.sk.v)
             ELSE item

(* keys that never adds the sort-key attribute *)
GetItem_keys_DropsSk(self) ==
    IF ~self.pk.some THEN Panic
    ELSE HashMap_insert(EmptyMap, self.pk_attribute, self.pk.v)

GetItem_keys(self) ==
    IF ~self.pk.some THEN Panic
    ELSE LET item == HashMap_insert(EmptyMap, self.pk_attribute, self.pk.v)
         IN  IF self.sk_attribute.some /\ self.sk.some
             THEN HashMap_insert(item, self.sk_attribute.v, self.sk.v)
             ELSE item

GetBuilding == op = "GetItem" /\ pc = "building"

GetItem_set_pk(inputs) ==
    /\ GetBuilding
    /\ get' = [get EXCEPT !.pk = KeyBuilder_build(table.pk_builder, inputs)]
    /\ hist' = [hist EXCEPT !.pk_in = Some(inputs)]
    /\ UNCHANGED <<op, table, put, pure, query, update, delete, pc, transport, result>>

GetItem_set_sk(inputs) ==
    /\ GetBuilding
    /\ get' = [get EXCEPT !.sk = KeyBuilder_build(table.sk_builder, inputs)]
    /\ hist' = SkCall("set_sk", <<inputs>>, get.sk)
    /\ UNCHANGED <<op, table, put, pure, query, update, delete, pc, transport, result>>

GetItem_send(response) ==
    /\ GetBuilding
    /\ LET keys == GetItem_keys(get)
       IN  IF keys = Panic
           THEN /\ pc' = "panicked"
                /\ UNCHANGED <<transport, result, hist>>
           ELSE /\ transport' = Append(transport, [op |-> "GetItem", key |-> Some(keys)])
                /\ result' = IF response.tag = "Err" THEN Error_Sdk
                             ELSE Option_map_try_from(response.v.item)
                /\ pc' = "done"
                /\ hist' = [hist EXCEPT !.response = Some(response)]
    /\ UNCHANGED <<op, table, put, pure, query, get, update, delete>>

(* ---------------------------------------------------------------------- *)
(* UpdateItem                                                              *)
(* ---------------------------------------------------------------------- *)
UpdateItem_update_item(t, return_values) ==
    [pk_attribute |-> t.pk_attribute,
     sk_attribute |-> t.sk_attribute,
     pk |-> None,
     sk |-> None,
     input_builder |-> [return_values |-> return_values]]

UpdateItem_return_value(self) ==
    self.input_builder.return_values \in {Some("ALL_NEW"), Some("ALL_OLD")}

(* keys that also panics when a declared sort key has no value *)
UpdateItem_keys_RequiresSk(self) ==
    IF ~self.pk.some \/ (self.sk_attribute.some /\ ~self.sk.some) THEN Panic
    ELSE LET item == HashMap_insert(EmptyMap, self.pk_attribute, self.pk.v)
         IN  IF self.sk_attribute.some /\ self.sk.some
             THEN HashMap_insert(item, self.sk_attribute.v, self.sk.v)
             ELSE item

UpdateItem_keys(self) ==
    IF ~self.pk.some THEN Panic
    ELSE LET item == HashMap_insert(EmptyMap, self.pk_attribute, self.pk.v)
         IN  IF self.sk_attribute.some /\ self.sk.some
             THEN HashMap_insert(item, self.sk_attribute.v, self.sk.v)
             ELSE item

UpdateBuilding == op = "UpdateItem" /\ pc = "building"

UpdateItem_set_pk(inputs) ==
    /\ UpdateBuilding
    /\ update' = [update EXCEPT !.pk = KeyBuilder_build(table.pk_builder, inputs)]
    /\ hist' = [hist EXCEPT !.pk_in = Some(inputs)]
    /\ UNCHANGED <<op, table, put, pure, query, get, delete, pc, transport, result>>

UpdateItem_set_sk(inputs) ==
    /\ UpdateBuilding
    /\ update' = [update EXCEPT !.sk = KeyBuilder_build(table.sk_builder, inputs)]
    /\ hist' = SkCall("set_sk", <<inputs>>, update.sk)
    /\ UNCHANGED <<op, table, put, pure, query, get, delete, pc, transport, result>>

UpdateItem_send(response) ==
    /\ UpdateBuilding
    /\ LET keys == UpdateItem_keys(update)
           return_value == UpdateItem_return_value(update)
       IN  IF keys = Panic
           THEN /\ pc' = "panicked"
                /\ UNCHANGED <<transport, result, hist>>
           ELSE /\ transport' = Append(transport, [op |-> "UpdateItem", key |-> Some(keys)])
                /\ result' = IF response.tag = "Err" THEN Error_Sdk
                             ELSE IF return_value
                                  THEN Option_map_try_from(response.v.attributes)
                                  ELSE Ok(None)
                /\ pc' = "done"
                /\ hist' = [hist EXCEPT !.response = Some(response)]
    /\ UNCHANGED <<op, table, put, pure, query, get, update, delete>>

(* ---------------------------------------------------------------------- *)
(* DeleteItem                                                              *)
(* ---------------------------------------------------------------------- *)
DeleteItem_delete_item(t, return_values) ==
    [key |-> None, input_builder |-> [return_values |-> return_values]]

(* matches! that takes ALL_NEW as well *)
DeleteItem_return_value_AlsoAllNew(self) ==
    self.input_builder.return_values \in {Some("ALL_NEW"), Some("ALL_OLD")}

DeleteItem_return_value(self) ==
    self.input_builder.return_values = Some("ALL_OLD")

(* Key::key: the partition-key attribute, and the sort-key attribute when *)
(* the key declares one and sort_key yields a value                       *)
Key_key(t, pk, sk) ==
    LET item == HashMap_insert(EmptyMap, t.pk_attribute,
                               KeyBuilder_build(t.pk_builder, pk).v)
        sort == KeyBuilder_build(t.sk_builder, sk)
    IN  IF t.sk_attribute.some /\ sort.some
        THEN HashMap_insert(item, t.sk_attribute.v, sort.v)
        ELSE item

DeleteBuilding == op = "DeleteItem" /\ pc = "building"

DeleteItem_set_key(pk, sk) ==
    /\ DeleteBuilding
    /\ delete' = [delete EXCEPT !.key = Some(Key_key(table, pk, sk))]
    /\ hist' = [hist EXCEPT !.pk_in = Some(pk)]
    /\ UNCHANGED <<op, table, put, pure, query, get, update, pc, transport, result>>

DeleteItem_send(response) ==
    /\ DeleteBuilding
    /\ LET return_value == DeleteItem_return_value(delete)
       IN  /\ transport' = Append(transport, [op |-> "DeleteItem", key |-> delete.key])
           /\ result' = IF response.tag = "Err" THEN Error_Sdk
                        ELSE IF return_value
                             THEN Option_map_try_from(response.v.attributes)
                             ELSE Ok(None)
           /\ pc' = "done"
    /\ hist' = [hist EXCEPT !.response = Some(response)]
    /\ UNCHANGED <<op, table, put, pure, query, get, update, delete>>

(* ---------------------------------------------------------------------- *)
(* PutItem                                                                 *)
(* ---------------------------------------------------------------------- *)
PutItem_put_item(t) == [item |-> None]

(* the records handed to set_item *)
Records == {[id |-> id] : id \in Inputs}

(* From<T> for Item: Person writes its fields and no key attribute, the    *)
(* records of test_tables write their key attributes themselves            *)
T_into_Item(t, record) ==
    IF t.pk_builder = "PersonKey"
    THEN Item_of(record.id)
    ELSE LET item == HashMap_insert(Item_of(record.id), t.pk_attribute,
                                    KeyBuilder_build(t.pk_builder, record.id).v)
         IN  IF t.sk_attribute.some
             THEN HashMap_insert(item, t.sk_attribute.v,
                                 KeyBuilder_build(t.sk_builder, record.id).v)
             ELSE item

PutBuilding == op = "PutItem" /\ pc = "building"

PutItem_set_item(item) ==
    /\ PutBuilding
    /\ put' = [put EXCEPT !.item = Some(item)]
    /\ UNCHANGED <<op, table, pure, query, get, update, delete, pc, transport, result, hist>>

PutItem_send(response) ==
    /\ PutBuilding
    /\ transport' = Append(transport,
                           [op |-> "PutItem",
                            item |-> IF put.item.some
                                     THEN Some(T_into_Item(table, put.item.v))
                                     ELSE None])
    /\ result' = IF response.tag = "Err" THEN Error_Sdk ELSE Ok(response.v)
    /\ pc' = "done"
    /\ hist' = [hist EXCEPT !.response = Some(response)]
    /\ UNCHANGED <<op, table, put, pure, query, get, update, delete>>

(* ---------------------------------------------------------------------- *)
(* Specification                                                           *)
(* ---------------------------------------------------------------------- *)
Init ==
    /\ op \in Operations
    /\ table \in Tables
    /\ op \in {"DeleteItem", "PutItem"} => table.pk_builder # "NotKey"
    /\ query = Query_query(table)
    /\ get = GetItem_get_item(table)
    /\ \E return_values \in (IF op = "UpdateItem" THEN ReturnValues ELSE {None}) :
           update = UpdateItem_update_item(table, return_values)
    /\ \E return_values \in (IF op = "DeleteItem" THEN ReturnValues ELSE {None}) :
           delete = DeleteItem_delete_item(table, return_values)
    /\ put = PutItem_put_item(table)
    /\ output = None
    /\ uexp = NoUpdateExpressions
    /\ cexp = NoCondition
    /\ sexp = None
    /\ pc = "building"
    /\ transport = <<>>
    /\ result = NoResult
    /\ hist = [pk_in |-> None, sk_call |-> None, sk_prev |-> "none", response |-> None]

Next ==
    \/ \E inputs \in Inputs : pk_eq(inputs)
    \/ \E inputs \in Inputs : sk_eq(inputs)
    \/ \E inputs \in Inputs : sk_lt(inputs)
    \/ \E inputs \in Inputs : sk_lte(inputs)
    \/ \E inputs \in Inputs : sk_gt(inputs)
    \/ \E inputs \in Inputs : sk_gte(inputs)
    \/ \E from \in Inputs, to \in Inputs : sk_between(from, to)
    \/ \E value \in BeginsWithValues : sk_begins_with(value)
    \/ \E names \in CallerNames : filter_expression_attribute_names(names)
    \/ \E values \in CallerValues : filter_expression_attribute_values(values)
    \/ \E response \in Responses("Query") : Query_send(response)
    \/ \E inputs \in Inputs : GetItem_set_pk(inputs)
    \/ \E inputs \in Inputs : GetItem_set_sk(inputs)
    \/ \E response \in Responses("GetItem") : GetItem_send(response)
    \/ \E inputs \in Inputs : UpdateItem_set_pk(inputs)
    \/ \E inputs \in Inputs : UpdateItem_set_sk(inputs)
    \/ \E response \in Responses("UpdateItem") : UpdateItem_send(response)
    \/ \E pk \in Inputs, sk \in Inputs : DeleteItem_set_key(pk, sk)
    \/ \E response \in Responses("DeleteItem") : DeleteItem_send(response)
    \/ \E item \in Records : PutItem_set_item(item)
    \/ \E response \in Responses("PutItem") : PutItem_send(response)

Spec == Init /\ [][Next]_vars

(* ---------------------------------------------------------------------- *)
(* The fluent setters of Query on their own: every setter, the request     *)
(* options included, in any order and any number of times; nothing is sent *)
(* ---------------------------------------------------------------------- *)
Limits == {100}
IndexNames == {"test_index"}
FilterExpressions == {"#v = :v"}
FilterNames == {("#v" :> "foo")}
FilterValues == {(":v" :> AttributeValue_S("bar"))}

InitQuerySetters ==
    /\ Init
    /\ op = "Query"

NextQuerySetters ==
    \/ \E inputs \in Inputs : pk_eq(inputs)
    \/ \E inputs \in {FirstInput} : sk_eq(inputs)
    \/ \E inputs \in {FirstInput} : sk_lt(inputs)
    \/ \E inputs \in {FirstInput} : sk_lte(inputs)
    \/ \E inputs \in {FirstInput} : sk_gt(inputs)
    \/ \E inputs \in {FirstInput} : sk_gte(inputs)
    \/ \E from \in {FirstInput}, to \in {FirstInput + 1} : sk_between(from, to)
    \/ \E value \in {AttributeValue_S("SK#")} : sk_begins_with(value)
    \/ \E n \in Limits : limit(n)
    \/ \E name \in IndexNames : index(name)
    \/ \E forward \in BOOLEAN : scan_index_forward(forward)
    \/ \E expr \in FilterExpressions : filter_expression(expr)
    \/ \E names \in FilterNames : filter_expression_attribute_names(names)
    \/ \E values \in FilterValues : filter_expression_attribute_values(values)

SpecQuerySetters == InitQuerySetters /\ [][NextQuerySetters]_vars

(* ---------------------------------------------------------------------- *)
(* Specifications of the functions exercised on their own: the builders    *)
(* stay as constructed for the Person table and nothing is dispatched      *)
(* ---------------------------------------------------------------------- *)
PersonTable == CHOOSE t \in Tables : t.pk_builder = "PersonKey"

Idle ==
    /\ table = PersonTable
    /\ query = Query_query(table)
    /\ get = GetItem_get_item(table)
    /\ update = UpdateItem_update_item(table, None)
    /\ delete = DeleteItem_delete_item(table, None)
    /\ put = PutItem_put_item(table)
    /\ pc = "building"
    /\ transport = <<>>
    /\ result = NoResult
    /\ hist = [pk_in |-> None, sk_call |-> None, sk_prev |-> "none", response |-> None]

(* QueryOperationOutput::try_from applied to a QueryOutput *)
InitTryFrom ==
    /\ op = "TryFrom<QueryOutput>"
    /\ Idle
    /\ output \in {Some(o) : o \in QueryOutputs(Inputs, MaxItems)}
    /\ uexp = NoUpdateExpressions
    /\ cexp = NoCondition
    /\ sexp = None

TryFrom_QueryOutput ==
    /\ op = "TryFrom<QueryOutput>"
    /\ pc = "building"
    /\ result' = QueryOperationOutput_try_from(output.v)
    /\ pc' = "done"
    /\ UNCHANGED <<op, table, put, pure, query, get, update, delete, transport, hist>>

NextTryFrom == TryFrom_QueryOutput

SpecTryFrom == InitTryFrom /\ [][NextTryFrom]_vars

(* three update expressions a, b, c, each grown from UpdateExpression::new() *)
(* by and(..) with a one-action expression                                  *)
InitUpdateExpression ==
    /\ op = "UpdateExpression"
    /\ Idle
    /\ output = None
    /\ uexp = NoUpdateExpressions
    /\ cexp = NoCondition
    /\ sexp = None

UpdateExpression_len(self) ==
    Len(self.set) + Len(self.remove) + Len(self.add) + Len(self.delete)

and_expression(name, other) ==
    /\ op = "UpdateExpression"
    /\ UpdateExpression_len(uexp.a) + UpdateExpression_len(uexp.b)
          + UpdateExpression_len(uexp.c) < MaxActions
    /\ uexp' = [uexp EXCEPT ![name] = UpdateExpression_and(@, other)]
    /\ UNCHANGED <<op, table, put, output, cexp, sexp, query, get, update, delete, pc,
                   transport, result, hist>>

and_set(name, statement) == and_expression(name, update_set(statement))
and_remove(name, path) == and_expression(name, update_remove(path))
and_add(name, path, value) == and_expression(name, update_add(path, value))
and_delete(name, path, subset) == and_expression(name, update_delete(path, subset))

NextUpdateExpression ==
    \/ \E name \in DOMAIN uexp, i \in DOMAIN SetActions : and_set(name, SetActions[i])
    \/ \E name \in DOMAIN uexp, i \in DOMAIN RemovePaths : and_remove(name, RemovePaths[i])
    \/ \E name \in DOMAIN uexp, i \in DOMAIN AddOperands :
           and_add(name, AddOperands[i][1], AddOperands[i][2])
    \/ \E name \in DOMAIN uexp, i \in DOMAIN DeleteOperands :
           and_delete(name, DeleteOperands[i][1], DeleteOperands[i][2])

SpecUpdateExpression == InitUpdateExpression /\ [][NextUpdateExpression]_vars

(* one condition expression: a first condition from a Condition method or  *)
(* a built-in function, then and / or / not / paren applied to it          *)
InitConditionExpression ==
    /\ op = "ConditionExpression"
    /\ Idle
    /\ output = None
    /\ uexp = NoUpdateExpressions
    /\ cexp = NoCondition
    /\ sexp = None

Call(method, self, args) == [method |-> method, self |-> self, args |-> args]

first_condition(expression, call) ==
    /\ op = "ConditionExpression"
    /\ ~cexp.expr.some
    /\ cexp' = [expr |-> Some(expression), last |-> Some(call)]
    /\ UNCHANGED <<op, table, put, output, uexp, sexp, query, get, update, delete, pc,
                   transport, result, hist>>

next_condition(expression, call) ==
    /\ op = "ConditionExpression"
    /\ cexp.expr.some
    /\ ConditionExpression_depth(expression) <= MaxDepth
    /\ cexp' = [expr |-> Some(expression), last |-> Some(call)]
    /\ UNCHANGED <<op, table, put, output, uexp, sexp, query, get, update, delete, pc,
                   transport, result, hist>>

call_compare(method, self, operand) ==
    first_condition(Condition_compare(method, self, operand),
                    Call(method, self, <<operand>>))

call_between(self, from, to) ==
    first_condition(Condition_between(self, from, to), Call("between", self, <<from, to>>))

call_any(self, values) ==
    first_condition(Condition_any(self, values), Call("any", self, values))

call_function(name, path, operand) ==
    first_condition(conditional_function(name, path, operand),
                    Call(name, path, <<operand>>))

(* expr.and(other) and other.and(expr) *)
call_and(other, flipped) ==
    IF flipped
    THEN next_condition(ConditionExpression_and(other, cexp.expr.v),
                        Call("and", other, <<cexp.expr.v>>))
    ELSE next_condition(ConditionExpression_and(cexp.expr.v, other),
                        Call("and", cexp.expr.v, <<other>>))

call_or(other, flipped) ==
    IF flipped
    THEN next_condition(ConditionExpression_or(other, cexp.expr.v),
                        Call("or", other, <<cexp.expr.v>>))
    ELSE next_condition(ConditionExpression_or(cexp.expr.v, other),
                        Call("or", cexp.expr.v, <<other>>))

call_not ==
    next_condition(condition_not(cexp.expr.v), Call("not", cexp.expr.v, <<>>))

call_paren ==
    next_condition(condition_paren(cexp.expr.v), Call("paren", cexp.expr.v, <<>>))

NextConditionExpression ==
    \/ \E method \in Comparisons, self \in LeftOperands, operand \in RightOperands :
           call_compare(method, self, operand)
    \/ \E self \in LeftOperands : call_between(self, ":a", ":b")
    \/ \E self \in LeftOperands, values \in AnyValues : call_any(self, values)
    \/ \E name \in Functions : call_function(name, "#x", ":y")
    \/ \E other \in OtherConditions, flipped \in BOOLEAN : call_and(other, flipped)
    \/ \E other \in OtherConditions, flipped \in BOOLEAN : call_or(other, flipped)
    \/ call_not
    \/ call_paren

SpecConditionExpression == InitConditionExpression /\ [][NextConditionExpression]_vars

(* the two condition builders side by side: each call of the AST builder  *)
(* is made together with the corresponding call of the string builder, on  *)
(* the same operand texts                                                  *)
InitBuilders ==
    /\ op = "Expression"
    /\ Idle
    /\ output = None
    /\ uexp = NoUpdateExpressions
    /\ cexp = NoCondition
    /\ sexp = None

(* expressions handed to and / or, as each builder makes them *)
OtherPairs ==
    { [ast |-> Condition_equal("#y", ":y"), text |-> Operand_eq("#y", ":y")],
      [ast |-> ConditionExpression_or(Condition_equal("#y", ":y"),
                                      Condition_equal("#z", ":z")),
       text |-> Expression_or(Operand_eq("#y", ":y"), Operand_eq("#z", ":z"))],
      [ast |-> condition_paren(ConditionExpression_or(Condition_equal("#y", ":y"),
                                                      Condition_equal("#z", ":z"))),
       text |-> wrap(Expression_or(Operand_eq("#y", ":y"), Operand_eq("#z", ":z")))] }

(* left operands, as each module's op! / size makes them *)
OperandPairs ==
    { [ast |-> "#x", text |-> "#x"],
      [ast |-> condition_size("Brand"), text |-> size("Brand")] }

first_pair(expression, text, call) ==
    /\ op = "Expression"
    /\ ~cexp.expr.some
    /\ cexp' = [expr |-> Some(expression), last |-> Some(call)]
    /\ sexp' = Some(text)
    /\ UNCHANGED <<op, table, put, output, uexp, query, get, update, delete, pc,
                   transport, result, hist>>

next_pair(expression, text, call) ==
    /\ op = "Expression"
    /\ cexp.expr.some
    /\ ConditionExpression_depth(expression) <= MaxDepth
    /\ cexp' = [expr |-> Some(expression), last |-> Some(call)]
    /\ sexp' = Some(text)
    /\ UNCHANGED <<op, table, put, output, uexp, query, get, update, delete, pc,
                   transport, result, hist>>

pair_compare(method, self, operand) ==
    first_pair(Condition_compare(method, self.ast, operand),
               Operand_method(method, self.text, operand),
               Call(method, self.ast, <<operand>>))

pair_between(self, from, to) ==
    first_pair(Condition_between(self.ast, from, to),
               Operand_between(self.text, from, to),
               Call("between", self.ast, <<from, to>>))

pair_any(self, values) ==
    first_pair(Condition_any(self.ast, values), Operand_any(self.text, values),
               Call("any", self.ast, values))

pair_function(name, path, operand) ==
    first_pair(conditional_function(name, path, operand),
               expression_function(name, path, operand),
               Call(name, path, <<operand>>))

pair_and(other, flipped) ==
    IF flipped
    THEN next_pair(ConditionExpression_and(other.ast, cexp.expr.v),
                   Expression_and(other.text, sexp.v),
                   Call("and", other.ast, <<cexp.expr.v>>))
    ELSE next_pair(ConditionExpression_and(cexp.expr.v, other.ast),
                   Expression_and(sexp.v, other.text),
                   Call("and", cexp.expr.v, <<other.ast>>))

pair_or(other, flipped) ==
    IF flipped
    THEN next_pair(ConditionExpression_or(other.ast, cexp.expr.v),
                   Expression_or(other.text, sexp.v),
                   Call("or", other.ast, <<cexp.expr.v>>))
    ELSE next_pair(ConditionExpression_or(cexp.expr.v, other.ast),
                   Expression_or(sexp.v, other.text),
                   Call("or", cexp.expr.v, <<other.ast>>))

pair_not ==
    next_pair(condition_not(cexp.expr.v), not(sexp.v), Call("not", cexp.expr.v, <<>>))

pair_paren ==
    next_pair(condition_paren(cexp.expr.v), wrap(sexp.v), Call("paren", cexp.expr.v, <<>>))

NextBuilders ==
    \/ \E method \in Comparisons, self \in OperandPairs, operand \in RightOperands :
           pair_compare(method, self, operand)
    \/ \E self \in OperandPairs : pair_between(self, ":a", ":b")
    \/ \E self \in OperandPairs, values \in AnyValues : pair_any(self, values)
    \/ \E name \in Functions : pair_function(name, "#x", ":y")
    \/ \E other \in OtherPairs, flipped \in BOOLEAN : pair_and(other, flipped)
    \/ \E other \in OtherPairs, flipped \in BOOLEAN : pair_or(other, flipped)
    \/ pair_not
    \/ pair_paren

SpecBuilders == InitBuilders /\ [][NextBuilders]_vars

(* condition expressions of either builder and update expressions, each    *)
(* built as above                                                          *)
InitExpressions ==
    /\ op \in {"UpdateExpression", "ConditionExpression", "Expression"}
    /\ Idle
    /\ output = None
    /\ uexp = NoUpdateExpressions
    /\ cexp = NoCondition
    /\ sexp = None

NextExpressions == NextUpdateExpression \/ NextConditionExpression \/ NextBuilders

SpecExpressions == InitExpressions /\ [][NextExpressions]_vars

(* ---------------------------------------------------------------------- *)
(* Properties of the Query key-condition compiler                          *)
(* ---------------------------------------------------------------------- *)

(* C1: a Query whose table declares no sort-key attribute, after pk_eq(v)  *)
(* and any sk_* setter calls, has the key-condition text "#PK = :PK", key  *)
(* name bindings with #PK and no #SK, and key value bindings with          *)
(* :PK = encode(v) and none of :SK, :SK_FROM, :SK_TO.                      *)
C1_NoSortKeyAttributeIgnoresSk ==
    (op = "Query" /\ ~query.sk_attribute.some /\ hist.pk_in.some
       /\ KeyBuilder_build(table.pk_builder, hist.pk_in.v).some) =>
        LET names == Query_key_expression_attribute_names(query)
            values == Query_key_expression_attribute_values(query)
        IN  /\ Query_key_condition_expression(query) = "#PK = :PK"
            /\ "#PK" \in DOMAIN names
            /\ "#SK" \notin DOMAIN names
            /\ values # Panic
            /\ ":PK" \in DOMAIN values
            /\ values[":PK"] = KeyBuilder_build(table.pk_builder, hist.pk_in.v).v
            /\ (DOMAIN values) \cap {":SK", ":SK_FROM", ":SK_TO"} = {}

C1_Witness ==
    /\ op = "Query"
    /\ ~query.sk_attribute.some
    /\ hist.pk_in.some
    /\ hist.sk_call.some
    /\ hist.sk_call.v.method = "sk_between"
    /\ query.sk.some

(* C2: with a declared sort-key attribute, pk_eq(a) and one single-value   *)
(* sort condition active, the text is "#PK = :PK AND " and the rendered    *)
(* condition of the setter, :PK and :SK are bound to the encoded values    *)
(* and #PK, #SK to the declared attribute names; with no sort condition    *)
(* active the text is "#PK = :PK" and neither #SK nor :SK is bound.        *)
C2_SingleValueSortCondition ==
    (op = "Query" /\ query.sk_attribute.some /\ hist.pk_in.some /\ query.pk.some) =>
        LET text == Query_key_condition_expression(query)
            names == Query_key_expression_attribute_names(query)
            values == Query_key_expression_attribute_values(query)
            pkv == KeyBuilder_build(table.pk_builder, hist.pk_in.v).v
            method == hist.sk_call.v.method
            arg == hist.sk_call.v.args[1]
            skv == IF method = "sk_begins_with" THEN arg
                   ELSE KeyBuilder_build(table.sk_builder, arg).v
        IN  /\ (query.sk.some /\ query.sk.v.tag # "Between") =>
                /\ text = ( CASE method = "sk_eq" -> "#PK = :PK AND #SK = :SK"
                              [] method = "sk_lt" -> "#PK = :PK AND #SK < :SK"
                              [] method = "sk_lte" -> "#PK = :PK AND #SK <= :SK"
                              [] method = "sk_gt" -> "#PK = :PK AND #SK > :SK"
                              [] method = "sk_gte" -> "#PK = :PK AND #SK >= :SK"
                              [] method = "sk_begins_with" ->
                                     "#PK = :PK AND begins_with (#SK, :SK)" )
                /\ values = (":PK" :> pkv) @@ (":SK" :> skv)
                /\ names = ("#PK" :> table.pk_attribute)
                              @@ ("#SK" :> table.sk_attribute.v)
            /\ ~query.sk.some =>
                /\ text = "#PK = :PK"
                /\ names = ("#PK" :> table.pk_attribute)
                /\ values = (":PK" :> pkv)

C2_Witness ==
    /\ op = "Query"
    /\ query.sk_attribute.some
    /\ query.pk.some
    /\ hist.sk_call.some
    /\ hist.sk_call.v.method = "sk_lte"
    /\ query.sk.some

(* C3: with a declared sort-key attribute, pk_eq(p).sk_between(a, b) gives *)
(* the text "#PK = :PK AND #SK BETWEEN :SK_FROM AND :SK_TO" and binds      *)
(* exactly :PK, :SK_FROM = encode(a) and :SK_TO = encode(b); no :SK.       *)
C3_Between ==
    (op = "Query" /\ query.sk_attribute.some /\ hist.pk_in.some /\ query.pk.some
       /\ hist.sk_call.some /\ hist.sk_call.v.method = "sk_between"
       /\ KeyBuilder_build(table.sk_builder, hist.sk_call.v.args[1]).some
       /\ KeyBuilder_build(table.sk_builder, hist.sk_call.v.args[2]).some) =>
        LET values == Query_key_expression_attribute_values(query)
        IN  /\ Query_key_condition_expression(query)
                 = "#PK = :PK AND #SK BETWEEN :SK_FROM AND :SK_TO"
            /\ DOMAIN values = {":PK", ":SK_FROM", ":SK_TO"}
            /\ values[":PK"] = KeyBuilder_build(table.pk_builder, hist.pk_in.v).v
            /\ values[":SK_FROM"]
                 = KeyBuilder_build(table.sk_builder, hist.sk_call.v.args[1]).v
            /\ values[":SK_TO"]
                 = KeyBuilder_build(table.sk_builder, hist.sk_call.v.args[2]).v
            /\ ":SK" \notin DOMAIN values

C3_Witness ==
    /\ op = "Query"
    /\ query.sk_attribute.some
    /\ query.pk.some
    /\ hist.sk_call.some
    /\ hist.sk_call.v.method = "sk_between"
    /\ hist.sk_call.v.args[1] # hist.sk_call.v.args[2]
    /\ query.sk.some

(* C4: at most one sort-key condition is active and the last sk_* call     *)
(* wins: the stored condition, the rendered text and the :SK / :SK_FROM /  *)
(* :SK_TO bindings are those of the last sk_* call alone, whatever         *)
(* condition it replaced.                                                  *)
C4_LastSkCallWins ==
    (op = "Query" /\ hist.sk_call.some) =>
        LET method == hist.sk_call.v.method
            args == hist.sk_call.v.args
            first == KeyBuilder_build(table.sk_builder, args[1])
            second == KeyBuilder_build(table.sk_builder, args[2])
            last == CASE method = "sk_eq" ->
                             IF first.some THEN Some([tag |-> "Eq", val |-> first.v]) ELSE None
                      [] method = "sk_lt" ->
                             IF first.some THEN Some([tag |-> "Lt", val |-> first.v]) ELSE None
                      [] method = "sk_lte" ->
                             IF first.some THEN Some([tag |-> "Lte", val |-> first.v]) ELSE None
                      [] method = "sk_gt" ->
                             IF first.some THEN Some([tag |-> "Gt", val |-> first.v]) ELSE None
                      [] method = "sk_gte" ->
                             IF first.some THEN Some([tag |-> "Gte", val |-> first.v]) ELSE None
                      [] method = "sk_between" ->
                             IF first.some /\ second.some
                             THEN Some([tag |-> "Between", from |-> first.v, to |-> second.v])
                             ELSE None
                      [] method = "sk_begins_with" ->
                             Some([tag |-> "BeginsWith", val |-> args[1]])
            values == Query_key_expression_attribute_values(query)
            bound == (DOMAIN values) \cap {":SK", ":SK_FROM", ":SK_TO"}
        IN  /\ query.sk = last
            /\ (query.pk.some /\ query.sk_attribute.some) =>
                  /\ (last.some /\ method = "sk_between") => bound = {":SK_FROM", ":SK_TO"}
                  /\ (last.some /\ method # "sk_between") => bound = {":SK"}
                  /\ ~last.some => bound = {}
                  /\ Query_key_condition_expression(query) =
                        ( IF ~last.some THEN "#PK = :PK"
                          ELSE "#PK = :PK AND " \o SkCondition_expression(last.v) )

C4_Witness ==
    /\ op = "Query"
    /\ query.pk.some
    /\ query.sk_attribute.some
    /\ hist.sk_prev = "between"
    /\ hist.sk_call.some
    /\ hist.sk_call.v.method = "sk_eq"
    /\ query.sk.some

(* C5: when Query merges the placeholder maps, every key the key condition *)
(* generates holds the internally computed value in the merged map, also   *)
(* when the caller's filter map has an entry under the same key; the       *)
(* collision raises no fault and the merged maps are what is dispatched.   *)
C5_InternalPlaceholdersOverwrite ==
    (op = "Query") =>
        LET key_names == Query_key_expression_attribute_names(query)
            key_values == Query_key_expression_attribute_values(query)
            names == Query_expression_attribute_names(query)
            values == Query_expression_attribute_values(query)
        IN  /\ \A k \in DOMAIN key_names : k \in DOMAIN names /\ names[k] = key_names[k]
            /\ names["#PK"] = table.pk_attribute
            /\ query.pk.some =>
                  /\ values # Panic
                  /\ \A k \in DOMAIN key_values :
                         k \in DOMAIN values /\ values[k] = key_values[k]
                  /\ values[":PK"] = query.pk.v
                  /\ pc # "panicked"
                  /\ pc = "done" =>
                        /\ Len(transport) = 1
                        /\ transport[1].expression_attribute_names = Some(names)
                        /\ transport[1].expression_attribute_values = Some(values)
                        /\ transport[1].expression_attribute_values.v[":PK"] = query.pk.v

C5_Witness ==
    /\ op = "Query"
    /\ pc = "done"
    /\ query.sk.some
    /\ query.sk_attribute.some
    /\ query.input_builder.expression_attribute_names.some
    /\ "#SK" \in DOMAIN query.input_builder.expression_attribute_names.v
    /\ query.input_builder.expression_attribute_values.some
    /\ ":PK" \in DOMAIN query.input_builder.expression_attribute_values.v

(* ---------------------------------------------------------------------- *)
(* Properties of the key preconditions of send                             *)
(* ---------------------------------------------------------------------- *)

(* C6: for Query, GetItem and UpdateItem, send on a builder whose          *)
(* partition key is not set (never set, or set through an encoder that     *)
(* returned None) panics: it returns no Result and nothing has been handed *)
(* to the transport; the transport is never called with the partition key  *)
(* unset.                                                                  *)
C6_NoPartitionKeyPanicsBeforeDispatch ==
    (op \in {"Query", "GetItem", "UpdateItem"}) =>
        LET unset == \/ ~hist.pk_in.some
                     \/ ~KeyBuilder_build(table.pk_builder, hist.pk_in.v).some
        IN  /\ (pc # "building" /\ unset) =>
                  /\ pc = "panicked"
                  /\ transport = <<>>
                  /\ result = NoResult
            /\ transport # <<>> => ~unset

C6_Witness ==
    /\ op \in {"Query", "GetItem", "UpdateItem"}
    /\ pc = "panicked"
    /\ hist.pk_in.some
    /\ transport = <<>>

(* C7 as claimed: when the table declares a sort-key attribute and no      *)
(* sort-key value is set at send time, GetItem and UpdateItem fail before  *)
(* dispatch instead of sending a key map with the partition key only.      *)
C7_SortKeyRequired ==
    (op \in {"GetItem", "UpdateItem"} /\ pc # "building") =>
        LET self == IF op = "GetItem" THEN get ELSE update
        IN  (self.sk_attribute.some /\ ~self.sk.some) => transport = <<>>

(* C7 amended: GetItem and UpdateItem key assembly requires the partition  *)
(* key only; with a declared sort-key attribute, the partition key set and *)
(* no sort-key value set, send does not panic and dispatches one request   *)
(* whose key map holds the partition-key attribute alone.                  *)
C7_PartitionKeyOnlyIsDispatched ==
    (op \in {"GetItem", "UpdateItem"} /\ pc # "building") =>
        LET self == IF op = "GetItem" THEN get ELSE update
        IN  (self.sk_attribute.some /\ ~self.sk.some /\ self.pk.some) =>
                /\ pc = "done"
                /\ Len(transport) = 1
                /\ transport[1].op = op
                /\ transport[1].key = Some(self.pk_attribute :> self.pk.v)

C7_Witness ==
    /\ op = "GetItem"
    /\ pc = "done"
    /\ get.sk_attribute.some
    /\ ~get.sk.some
    /\ get.pk.some
    /\ Len(transport) = 1

(* C8: send on a DeleteItem builder on which set_key was never called      *)
(* hands no request to the transport.                                      *)
C8_DeleteWithoutKeyNotDispatched ==
    (op = "DeleteItem" /\ ~delete.key.some) => transport = <<>>

(* C9 as claimed: when the table declares no sort-key attribute but set_sk *)
(* produced a value, GetItem and UpdateItem reject it: send does not go    *)
(* through with the value accepted, and the value is not in the key map.   *)
C9_StraySortKeyRejected ==
    (op \in {"GetItem", "UpdateItem"} /\ pc # "building") =>
        LET self == IF op = "GetItem" THEN get ELSE update
        IN  (~self.sk_attribute.some /\ self.sk.some) =>
                /\ pc = "panicked"
                /\ transport = <<>>

(* C9 amended: when the table declares no sort-key attribute but set_sk    *)
(* produced a value, the value is not merged into the key map and is       *)
(* silently ignored: with the partition key set, the key map holds the     *)
(* partition-key attribute alone and send dispatches it without a fault.   *)
C9_StraySortKeyIgnored ==
    (op \in {"GetItem", "UpdateItem"}) =>
        LET self == IF op = "GetItem" THEN get ELSE update
            keys == IF op = "GetItem" THEN GetItem_keys(get) ELSE UpdateItem_keys(update)
        IN  (~self.sk_attribute.some /\ self.sk.some /\ self.pk.some) =>
                /\ keys = (self.pk_attribute :> self.pk.v)
                /\ \A k \in DOMAIN keys : keys[k] # self.sk.v
                /\ pc # "panicked"
                /\ pc = "done" =>
                      /\ Len(transport) = 1
                      /\ transport[1].key = Some(self.pk_attribute :> self.pk.v)

C9_Witness ==
    /\ op = "UpdateItem"
    /\ pc = "done"
    /\ ~update.sk_attribute.some
    /\ update.sk.some
    /\ update.pk.some

(* C10: the GetItem / UpdateItem key map of a builder with the partition   *)
(* key set holds the declared partition-key attribute bound to the encoded *)
(* partition input, the declared sort-key attribute bound to the encoded   *)
(* sort input exactly when the table declares a sort key and a sort value  *)
(* is set, and nothing else; key 12345 on the partition-only Person table  *)
(* gives {"pk": "PERSON#12345"}; nothing is dispatched to compute it.      *)
C10_KeyMapIsExact ==
    (op \in {"GetItem", "UpdateItem"} /\ hist.pk_in.some
       /\ KeyBuilder_build(table.pk_builder, hist.pk_in.v).some) =>
        LET keys == IF op = "GetItem" THEN GetItem_keys(get) ELSE UpdateItem_keys(update)
            pkv == KeyBuilder_build(table.pk_builder, hist.pk_in.v).v
            sort == IF hist.sk_call.some
                    THEN KeyBuilder_build(table.sk_builder, hist.sk_call.v.args[1])
                    ELSE None
        IN  /\ keys = ( IF table.sk_attribute.some /\ sort.some
                        THEN (table.pk_attribute :> pkv) @@ (table.sk_attribute.v :> sort.v)
                        ELSE (table.pk_attribute :> pkv) )
            /\ (table.pk_builder = "PersonKey" /\ hist.pk_in.v = 12345) =>
                  keys = ("pk" :> [S |-> "PERSON#12345"])
            /\ pc = "building" => transport = <<>>

C10_Witness ==
    /\ op = "GetItem"
    /\ pc = "building"
    /\ table.pk_builder = "PersonKey"
    /\ hist.pk_in = Some(12345)
    /\ get.pk.some

(* ---------------------------------------------------------------------- *)
(* Properties of send: the dispatched item, decoding, errors               *)
(* ---------------------------------------------------------------------- *)

(* C11: the item Put dispatches holds the record's converted attributes    *)
(* and, merged in from the record's own key inputs, the partition-key      *)
(* attribute (and the sort-key attribute when declared) bound to the       *)
(* encoded key values, also for a record whose conversion to an item       *)
(* writes no key attribute itself.                                         *)
C11_PutMergesKeyAttributes ==
    (op = "PutItem" /\ pc = "done" /\ put.item.some) =>
        LET sent == transport[1].item
            converted == T_into_Item(table, put.item.v)
        IN  /\ sent.some
            /\ \A k \in DOMAIN converted :
                   k \in DOMAIN sent.v /\ sent.v[k] = converted[k]
            /\ table.pk_attribute \in DOMAIN sent.v
            /\ sent.v[table.pk_attribute]
                   = KeyBuilder_build(table.pk_builder, put.item.v.id).v
            /\ table.sk_attribute.some => table.sk_attribute.v \in DOMAIN sent.v

(* C12: decoding a Query response is all-or-nothing and keeps the order:   *)
(* when every returned item converts, the result holds the converted items *)
(* in the order of the response, as many as were returned, and the         *)
(* last-evaluated key unchanged; when any one item fails to convert, the   *)
(* whole result is Error::Conversion and no partial list.                  *)
C12_DecodingAllOrNothing ==
    (op = "TryFrom<QueryOutput>" /\ pc = "done") =>
        LET items == Vec_unwrap_or_default(output.v.items)
        IN  IF \A i \in 1..Len(items) : T_try_from(items[i]).tag = "Ok"
            THEN /\ result.tag = "Ok"
                 /\ Len(result.v.items) = Len(items)
                 /\ \A i \in 1..Len(items) :
                        result.v.items[i] = T_try_from(items[i]).v
                 /\ result.v.last_evaluated_key = output.v.last_evaluated_key
            ELSE result = Error_Conversion

C12_Witness ==
    /\ op = "TryFrom<QueryOutput>"
    /\ pc = "done"
    /\ output.v.items.some
    /\ Len(output.v.items.v) = 3
    /\ T_try_from(output.v.items.v[1]).tag = "Ok"
    /\ T_try_from(output.v.items.v[2]).tag = "Ok"
    /\ output.v.items.v[1] # output.v.items.v[2]
    /\ T_try_from(output.v.items.v[3]).tag = "Err"
    /\ output.v.last_evaluated_key.some
    /\ result = Error_Conversion

(* C13: every send hands at most one request to the transport, and exactly *)
(* one when its key precondition holds; it never asks again, also when a   *)
(* Query response carries a last-evaluated key.  A transport error comes   *)
(* back as Error::Sdk whatever a decoding would have given, a decoding     *)
(* failure as Error::Conversion, and the two are never confused.           *)
C13_SingleDispatchAndErrorKinds ==
    (op \in Operations) =>
        LET precondition ==
                CASE op = "Query"      -> query.pk.some
                  [] op = "GetItem"    -> get.pk.some
                  [] op = "UpdateItem" -> update.pk.some
                  [] op = "DeleteItem" -> delete.key.some
                  [] op = "PutItem"    -> put.item.some
        IN  /\ Len(transport) <= 1
            /\ pc = "building" => (transport = <<>> /\ result = NoResult)
            /\ pc = "panicked" => (transport = <<>> /\ result = NoResult)
            /\ (pc # "building" /\ precondition) =>
                  (pc = "done" /\ Len(transport) = 1 /\ transport[1].op = op)
            /\ pc = "done" =>
                  /\ hist.response.some
                  /\ (hist.response.v.tag = "Err") <=> (result = Error_Sdk)
                  /\ result = Error_Conversion =>
                        /\ hist.response.v.tag = "Ok"
                        /\ LET o == hist.response.v.v
                               items == CASE op = "Query" -> Vec_unwrap_or_default(o.items)
                                          [] op = "GetItem" -> <<o.item.v>>
                                          [] OTHER -> <<o.attributes.v>>
                           IN  \E i \in 1..Len(items) : T_try_from(items[i]).tag = "Err"
                  /\ result.tag \in {"Ok", "Err"}
                  /\ result.tag = "Err" => result \in {Error_Sdk, Error_Conversion}
            /\ Error_Sdk # Error_Conversion

C13_Witness ==
    /\ op = "Query"
    /\ pc = "done"
    /\ hist.response.v.tag = "Ok"
    /\ hist.response.v.v.last_evaluated_key.some
    /\ result.tag = "Ok"
    /\ result.v.last_evaluated_key.some
    /\ Len(transport) = 1

(* C14: whether a write operation decodes and returns an item depends on   *)
(* the return-values mode alone: Update.send returns the conversion of the *)
(* response attributes (None when there are none) when the mode is ALL_NEW *)
(* or ALL_OLD and Ok(None) for every other or unset mode, whatever         *)
(* attributes the response carries; Delete.send does so when the mode is   *)
(* ALL_OLD only.                                                           *)
C14_ReturnValuesModeDecides ==
    (op \in {"UpdateItem", "DeleteItem"} /\ pc = "done"
       /\ hist.response.v.tag = "Ok") =>
        LET mode == IF op = "UpdateItem" THEN update.input_builder.return_values
                    ELSE delete.input_builder.return_values
            attributes == hist.response.v.v.attributes
            decodes == IF op = "UpdateItem"
                       THEN mode \in {Some("ALL_NEW"), Some("ALL_OLD")}
                       ELSE mode = Some("ALL_OLD")
        IN  IF decodes
            THEN result = ( IF ~attributes.some THEN Ok(None)
                            ELSE IF T_try_from(attributes.v).tag = "Ok"
                                 THEN Ok(Some(T_try_from(attributes.v).v))
                                 ELSE Error_Conversion )
            ELSE result = Ok(None)

C14_Witness ==
    /\ op = "DeleteItem"
    /\ pc = "done"
    /\ delete.input_builder.return_values = Some("ALL_NEW")
    /\ hist.response.v.tag = "Ok"
    /\ hist.response.v.v.attributes.some
    /\ T_try_from(hist.response.v.v.attributes.v).tag = "Ok"
    /\ result = Ok(None)

(* ---------------------------------------------------------------------- *)
(* Properties of the update-expression compiler                            *)
(* ---------------------------------------------------------------------- *)

(* C15: the merge of update expressions is associative and keeps the       *)
(* order: a.and(b).and(c) and a.and(b.and(c)) are equal and render alike,  *)
(* and in each clause kind the merged list is a's items, then b's, then    *)
(* c's; the merge is not commutative: for a and b sharing a clause kind    *)
(* whose lists differ when swapped, a.and(b) and b.and(a) differ in        *)
(* structure and in text.                                                  *)
C15_MergeAssociativeOrderPreserving ==
    (op = "UpdateExpression") =>
        LET a == uexp.a
            b == uexp.b
            c == uexp.c
            left == UpdateExpression_and(UpdateExpression_and(a, b), c)
            right == UpdateExpression_and(a, UpdateExpression_and(b, c))
            ab == UpdateExpression_and(a, b)
            ba == UpdateExpression_and(b, a)
            kinds == {"set", "remove", "add", "delete"}
        IN  /\ left = right
            /\ UpdateExpression_fmt(left) = UpdateExpression_fmt(right)
            /\ \A kind \in kinds : left[kind] = a[kind] \o b[kind] \o c[kind]
            /\ \A kind \in kinds : ab[kind] = a[kind] \o b[kind]
            /\ (\E kind \in kinds : /\ a[kind] # <<>>
                                    /\ b[kind] # <<>>
                                    /\ a[kind] \o b[kind] # b[kind] \o a[kind]) =>
                  /\ ab # ba
                  /\ UpdateExpression_fmt(ab) # UpdateExpression_fmt(ba)

C15_Witness ==
    /\ op = "UpdateExpression"
    /\ Len(uexp.a.set) = 1
    /\ Len(uexp.b.set) = 1
    /\ uexp.a.set # uexp.b.set
    /\ Len(uexp.c.set) = 1
    /\ UpdateExpression_fmt(UpdateExpression_and(UpdateExpression_and(uexp.a, uexp.b), uexp.c))
          = "SET #x = :x, #y = :a + :b, Price = if_not_exists (Price, :p)"

(* C16: an UpdateExpression renders as its non-empty clause segments in    *)
(* the order SET, REMOVE, ADD, DELETE, whatever the order of the merges,   *)
(* joined by one space; a segment is the keyword, one space and the items  *)
(* joined by ", "; an empty clause gives no keyword and new() the empty    *)
(* string.  Items render as "{path} = {value}" (SET, with "{l} + {r}",     *)
(* "{l} - {r}", "list_append (a, b)", "if_not_exists (p, v)" as values),   *)
(* the bare path (REMOVE) and "{path} {value}" (ADD, DELETE).              *)
C16_RenderingFormat ==
    (op = "UpdateExpression") =>
        LET set_text == <<"#x = :x", "#y = :a + :b", "#y = :a - :b",
                          "#ri = list_append (#ri, :vals)",
                          "Price = if_not_exists (Price, :p)">>
            remove_text == <<"#x", "#y">>
            add_text == <<"#x :x">>
            delete_text == <<"#y :y">>
            position(item, items) == CHOOSE i \in DOMAIN items : items[i] = item
            set_of(e) == [i \in 1..Len(e.set) |-> set_text[position(e.set[i], SetActions)]]
            remove_of(e) ==
                [i \in 1..Len(e.remove) |-> remove_text[position(e.remove[i].path, RemovePaths)]]
            add_of(e) == [i \in 1..Len(e.add) |-> add_text[1]]
            delete_of(e) == [i \in 1..Len(e.delete) |-> delete_text[1]]
            list(texts) ==
                CASE Len(texts) = 1 -> texts[1]
                  [] Len(texts) = 2 -> texts[1] \o ", " \o texts[2]
                  [] Len(texts) = 3 -> texts[1] \o ", " \o texts[2] \o ", " \o texts[3]
                  [] Len(texts) = 4 ->
                         texts[1] \o ", " \o texts[2] \o ", " \o texts[3] \o ", " \o texts[4]
            segment(keyword, texts, later) ==
                IF texts = <<>> THEN ""
                ELSE keyword \o " " \o list(texts) \o (IF later THEN " " ELSE "")
            expected(e) ==
                   segment("SET", set_of(e), e.remove # <<>> \/ e.add # <<>> \/ e.delete # <<>>)
                \o segment("REMOVE", remove_of(e), e.add # <<>> \/ e.delete # <<>>)
                \o segment("ADD", add_of(e), e.delete # <<>>)
                \o segment("DELETE", delete_of(e), FALSE)
        IN  /\ \A name \in DOMAIN uexp :
                   UpdateExpression_fmt(uexp[name]) = expected(uexp[name])
            /\ LET merged == UpdateExpression_and(uexp.a, UpdateExpression_and(uexp.b, uexp.c))
                   swapped == UpdateExpression_and(uexp.c, UpdateExpression_and(uexp.b, uexp.a))
               IN  /\ UpdateExpression_fmt(merged) = expected(merged)
                   /\ UpdateExpression_fmt(swapped) = expected(swapped)
            /\ UpdateExpression_fmt(UpdateExpression_new) = ""
            /\ \A name \in DOMAIN uexp :
                   (uexp[name] = UpdateExpression_new) => UpdateExpression_fmt(uexp[name]) = ""

C16_Witness ==
    /\ op = "UpdateExpression"
    /\ uexp.a = update_delete("#y", ":y")
    /\ uexp.b = update_add("#x", ":x")
    /\ uexp.c = update_set(SetActions[4])
    /\ UpdateExpression_fmt(UpdateExpression_and(uexp.a, UpdateExpression_and(uexp.b, uexp.c)))
          = "SET #ri = list_append (#ri, :vals) ADD #x :x DELETE #y :y"

(* ---------------------------------------------------------------------- *)
(* Properties of the condition-expression compiler                         *)
(* ---------------------------------------------------------------------- *)

(* C17: AND and OR render without inserted parentheses, whatever the       *)
(* nesting of the operands: e1.and(e2) renders as the text of e1, " AND ", *)
(* the text of e2, and e1.or(e2) as the text of e1, " OR ", the text of    *)
(* e2; rendering the same expression again gives the same text.            *)
C17_AndOrInsertNoParentheses ==
    (op = "ConditionExpression" /\ cexp.last.some
       /\ cexp.last.v.method \in {"and", "or"}) =>
        LET e1 == cexp.last.v.self
            e2 == cexp.last.v.args[1]
            keyword == IF cexp.last.v.method = "and" THEN " AND " ELSE " OR "
        IN  /\ cexp.expr.v.left = e1
            /\ cexp.expr.v.right = e2
            /\ ConditionExpression_fmt(cexp.expr.v)
                   = ConditionExpression_fmt(e1) \o keyword \o ConditionExpression_fmt(e2)
            /\ (e1 = Condition_equal("#x", ":x") /\ e2 = Condition_equal("#y", ":y")) =>
                   ConditionExpression_fmt(cexp.expr.v)
                       = "#x = :x" \o keyword \o "#y = :y"

C17_Witness ==
    /\ op = "ConditionExpression"
    /\ cexp.last.some
    /\ cexp.last.v.method = "and"
    /\ cexp.last.v.self.tag = "Or"
    /\ cexp.last.v.args[1].tag = "Or"
    /\ ConditionExpression_fmt(cexp.expr.v) = "#x = :x OR #y = :y AND #y = :y OR #z = :z"

(* C18: at any depth, not(e) renders as "NOT " and the text of e, and      *)
(* paren(e) as "(", the text of e, ")"; no other builder of a composite    *)
(* expression adds a parenthesis of its own, so parentheses are in the     *)
(* text only where paren (or an IN list or a function call) was built.     *)
C18_NotAndParenWrapTheOperandText ==
    (op = "ConditionExpression" /\ cexp.last.some) =>
        LET method == cexp.last.v.method
            e == cexp.last.v.self
            text == ConditionExpression_fmt(cexp.expr.v)
        IN  /\ method = "not" =>
                  /\ cexp.expr.v = [tag |-> "Not", expr |-> e]
                  /\ text = "NOT " \o ConditionExpression_fmt(e)
            /\ method = "paren" =>
                  /\ cexp.expr.v = [tag |-> "Parentheses", expr |-> e]
                  /\ text = "(" \o ConditionExpression_fmt(e) \o ")"
            /\ (method = "not" /\ e = Condition_equal("#x", ":x")) => text = "NOT #x = :x"
            /\ (method = "paren" /\ e = Condition_equal("#x", ":x")) => text = "(#x = :x)"
            /\ (method = "not"
                  /\ e = ConditionExpression_and(Condition_equal("#x", ":x"),
                                                 Condition_equal("#y", ":y"))) =>
                   text = "NOT #x = :x AND #y = :y"

C18_Witness ==
    /\ op = "ConditionExpression"
    /\ cexp.last.some
    /\ cexp.last.v.method = "not"
    /\ cexp.last.v.self.tag = "And"
    /\ ConditionExpression_depth(cexp.expr.v) = 3
    /\ ConditionExpression_fmt(cexp.expr.v) = "NOT #x = :x AND #y = :y"

(* C19: the comparison builders map one to one onto the comparators:       *)
(* equal, ne, lt, lte, gt, gte render as "l = r", "l <> r", "l < r",       *)
(* "l <= r", "l > r", "l >= r" and between(from, to) as                    *)
(* "l BETWEEN from AND to"; for the same operands the six comparisons      *)
(* render to six different texts.                                          *)
C19_ComparisonBuilders ==
    (op = "ConditionExpression" /\ cexp.last.some
       /\ cexp.last.v.method \in Comparisons \cup {"between"}) =>
        LET method == cexp.last.v.method
            l == cexp.last.v.self
            args == cexp.last.v.args
            text == ConditionExpression_fmt(cexp.expr.v)
        IN  /\ method = "equal" => text = l \o " = " \o args[1]
            /\ method = "ne"    => text = l \o " <> " \o args[1]
            /\ method = "lt"    => text = l \o " < " \o args[1]
            /\ method = "lte"   => text = l \o " <= " \o args[1]
            /\ method = "gt"    => text = l \o " > " \o args[1]
            /\ method = "gte"   => text = l \o " >= " \o args[1]
            /\ method = "between" =>
                   text = l \o " BETWEEN " \o args[1] \o " AND " \o args[2]
            /\ method \in Comparisons =>
                   /\ \A other \in Comparisons \ {method} :
                          ConditionExpression_fmt(Condition_compare(other, l, args[1])) # text
                   /\ Cardinality({ConditionExpression_fmt(Condition_compare(m, l, args[1])) :
                                       m \in Comparisons}) = 6

C19_Witness ==
    /\ op = "ConditionExpression"
    /\ cexp.last.some
    /\ cexp.last.v.method = "lte"
    /\ cexp.last.v.self = "#x"
    /\ ConditionExpression_fmt(cexp.expr.v) = "#x <= :x"

(* C20: the built-in predicates render as the function name, one space and *)
(* the arguments in parentheses, joined by ", ": attribute_exists (p),     *)
(* attribute_not_exists (p), attribute_type (p, t), begins_with (p, s),    *)
(* contains (p, v); size(op) gives the operand whose text is "size (op)",  *)
(* which a comparison takes as its left side.                              *)
C20_BuiltInPredicates ==
    (op = "ConditionExpression" /\ cexp.last.some) =>
        LET method == cexp.last.v.method
            p == cexp.last.v.self
            args == cexp.last.v.args
            text == ConditionExpression_fmt(cexp.expr.v)
        IN  /\ method = "attribute_exists" => text = "attribute_exists (" \o p \o ")"
            /\ method = "attribute_not_exists" =>
                   text = "attribute_not_exists (" \o p \o ")"
            /\ method = "attribute_type" =>
                   text = "attribute_type (" \o p \o ", " \o args[1] \o ")"
            /\ method = "begins_with" =>
                   text = "begins_with (" \o p \o ", " \o args[1] \o ")"
            /\ method = "contains" =>
                   text = "contains (" \o p \o ", " \o args[1] \o ")"
            /\ (method = "attribute_exists" /\ p = "#x") => text = "attribute_exists (#x)"
            /\ condition_size("Brand") = "size (Brand)"
            /\ (method = "lte" /\ p = condition_size("Brand")) =>
                   text = "size (Brand) <= " \o args[1]

C20_Witness ==
    /\ op = "ConditionExpression"
    /\ cexp.last.some
    /\ cexp.last.v.method = "attribute_type"
    /\ ConditionExpression_fmt(cexp.expr.v) = "attribute_type (#x, :y)"

(* ---------------------------------------------------------------------- *)
(* Properties relating the two conversions and the two builders            *)
(* ---------------------------------------------------------------------- *)

C22_AnyIsNotValidated ==
    cexp.last.some =>
        /\ cexp.expr.some
        /\ cexp.expr.v.tag \in {"Compare", "Between", "Any", "Function", "And", "Or",
                                "Not", "Parentheses"}
        /\ cexp.last.v.method = "any" =>
              LET operand == cexp.last.v.self
                  values == cexp.last.v.args
                  text == ConditionExpression_fmt(cexp.expr.v)
              IN  /\ cexp.expr.v = [tag |-> "Any", operand |-> operand, values |-> values]
                  /\ Len(values) = 0 => text = operand \o " IN ()"
                  /\ Len(values) = 1 => text = operand \o " IN (" \o values[1] \o ")"
                  /\ Len(values) = 2 =>
                         text = operand \o " IN (" \o values[1] \o ", " \o values[2] \o ")"
                  /\ Len(values) <= 2

C22_Witness ==
    /\ cexp.last.some
    /\ cexp.last.v.method = "any"
    /\ cexp.last.v.args = <<>>
    /\ cexp.expr.some
    /\ ConditionExpression_fmt(cexp.expr.v) = "size (Brand) IN ()"

(* ---------------------------------------------------------------------- *)
(* Properties of the Query builder's setters                               *)
(* ---------------------------------------------------------------------- *)

(* C23: every fluent setter of the Query builder changes only the piece of *)
(* state it names: pk_eq only the partition-key value, each sk_* only the  *)
(* sort condition, and limit, index, scan_index_forward,                   *)
(* filter_expression, filter_expression_attribute_names and                *)
(* filter_expression_attribute_values only their own request field; what   *)
(* earlier setters stored, and the declared attribute names, stay.         *)
C23_SettersChangeOnlyTheirField ==
    [][ LET Fields(q) ==
                [pk_attribute |-> q.pk_attribute,
                 sk_attribute |-> q.sk_attribute,
                 pk |-> q.pk,
                 sk |-> q.sk,
                 index_name |-> q.input_builder.index_name,
                 limit |-> q.input_builder.limit,
                 scan_index_forward |-> q.input_builder.scan_index_forward,
                 filter_expression |-> q.input_builder.filter_expression,
                 expression_attribute_names |->
                     q.input_builder.expression_attribute_names,
                 expression_attribute_values |->
                     q.input_builder.expression_attribute_values]
            Only(field) ==
                /\ DOMAIN query' = DOMAIN query
                /\ DOMAIN query'.input_builder = DOMAIN query.input_builder
                /\ \A f \in (DOMAIN Fields(query)) \ {field} :
                       Fields(query')[f] = Fields(query)[f]
        IN  /\ (\E inputs \in Inputs : pk_eq(inputs)) =>
                   Only("pk") /\ query'.pk.some = (table.pk_builder # "NotKey")
            /\ (\/ \E inputs \in Inputs : sk_eq(inputs)
                \/ \E inputs \in Inputs : sk_lt(inputs)
                \/ \E inputs \in Inputs : sk_lte(inputs)
                \/ \E inputs \in Inputs : sk_gt(inputs)
                \/ \E inputs \in Inputs : sk_gte(inputs)
                \/ \E from \in Inputs, to \in Inputs : sk_between(from, to)
                \/ \E value \in {AttributeValue_S("SK#")} : sk_begins_with(value)) =>
                   Only("sk")
            /\ (\E n \in Limits : limit(n)) =>
                   Only("limit") /\ query'.input_builder.limit \in {Some(n) : n \in Limits}
            /\ (\E name \in IndexNames : index(name)) =>
                   /\ Only("index_name")
                   /\ query'.input_builder.index_name \in {Some(n) : n \in IndexNames}
            /\ (\E forward \in BOOLEAN : scan_index_forward(forward)) =>
                   /\ Only("scan_index_forward")
                   /\ query'.input_builder.scan_index_forward.some
            /\ (\E expr \in FilterExpressions : filter_expression(expr)) =>
                   /\ Only("filter_expression")
                   /\ query'.input_builder.filter_expression
                          \in {Some(x) : x \in FilterExpressions}
            /\ (\E names \in FilterNames : filter_expression_attribute_names(names)) =>
                   /\ Only("expression_attribute_names")
                   /\ query'.input_builder.expression_attribute_names
                          \in {Some(x) : x \in FilterNames}
            /\ (\E values \in FilterValues : filter_expression_attribute_values(values)) =>
                   /\ Only("expression_attribute_values")
                   /\ query'.input_builder.expression_attribute_values
                          \in {Some(x) : x \in FilterValues}
      ]_vars

(* every setter has been called and each one's value is still in place *)
C23_Witness ==
    /\ op = "Query"
    /\ query.pk.some
    /\ query.sk.some
    /\ query.sk.v.tag = "Between"
    /\ query.input_builder.index_name = Some("test_index")
    /\ query.input_builder.limit = Some(100)
    /\ query.input_builder.scan_index_forward = Some(FALSE)
    /\ query.input_builder.filter_expression = Some("#v = :v")
    /\ query.input_builder.expression_attribute_names.some
    /\ query.input_builder.expression_attribute_values.some

(* C24: the placeholder maps Query sends are the caller's filter maps      *)
(* extended by the generated key entries: the merged key set is the union  *)
(* of the caller's keys and the generated keys; every caller entry whose   *)
(* key the current key condition does not generate is present with the     *)
(* caller's value, also under a reserved alias (a caller :SK while         *)
(* sk_between is active, a caller #SK while no sort condition is active);  *)
(* #PK is bound to the declared partition-key attribute; with no caller    *)
(* maps the merged maps are the generated maps.                            *)
C24_MergedMapsAreCallerPlusGenerated ==
    (op = "Query") =>
        LET caller_names == query.input_builder.expression_attribute_names
            caller_values == query.input_builder.expression_attribute_values
            key_names == Query_key_expression_attribute_names(query)
            key_values == Query_key_expression_attribute_values(query)
            names == Query_expression_attribute_names(query)
            values == Query_expression_attribute_values(query)
            active == query.sk_attribute.some /\ query.sk.some
        IN  /\ names["#PK"] = table.pk_attribute
            /\ ~caller_names.some => names = key_names
            /\ caller_names.some =>
                  /\ DOMAIN names = (DOMAIN caller_names.v) \cup (DOMAIN key_names)
                  /\ \A k \in (DOMAIN caller_names.v) \ (DOMAIN key_names) :
                         names[k] = caller_names.v[k]
                  /\ ("#SK" \in DOMAIN caller_names.v /\ ~active) =>
                         names["#SK"] = caller_names.v["#SK"]
            /\ query.pk.some =>
                  /\ ~caller_values.some => values = key_values
                  /\ caller_values.some =>
                        /\ DOMAIN values = (DOMAIN caller_values.v) \cup (DOMAIN key_values)
                        /\ \A k \in (DOMAIN caller_values.v) \ (DOMAIN key_values) :
                               values[k] = caller_values.v[k]
                        /\ (":SK" \in DOMAIN caller_values.v /\ active
                              /\ query.sk.v.tag = "Between") =>
                               /\ values[":SK"] = caller_values.v[":SK"]
                               /\ {":PK", ":SK", ":SK_FROM", ":SK_TO"} \subseteq DOMAIN values
                        /\ (":SK_TO" \in DOMAIN caller_values.v /\ active
                              /\ query.sk.v.tag # "Between") =>
                               values[":SK_TO"] = caller_values.v[":SK_TO"]
                  /\ pc = "done" =>
                        /\ transport[1].expression_attribute_names = Some(names)
                        /\ transport[1].expression_attribute_values = Some(values)

C24_Witness ==
    /\ op = "Query"
    /\ pc = "done"
    /\ query.sk_attribute.some
    /\ query.sk.some
    /\ query.sk.v.tag = "Between"
    /\ query.input_builder.expression_attribute_values = Some((":SK" :> AttributeValue_S("bar")))
    /\ query.input_builder.expression_attribute_names = Some(("#v" :> "foo"))
    /\ transport[1].expression_attribute_values.v[":SK"] = AttributeValue_S("bar")
    /\ transport[1].expression_attribute_names.v["#v"] = "foo"

(* C25: in every reachable Query builder state with the partition key set *)
(* the generated artefacts agree: the name aliases (#...) occurring in the *)
(* key-condition text are exactly the keys of the generated name bindings  *)
(* and the value aliases (:...) occurring in it are exactly the keys of    *)
(* the generated value bindings; #SK is named iff the text has a sort      *)
(* clause iff :SK or both :SK_FROM and :SK_TO are bound, and :SK is never  *)
(* generated together with :SK_FROM or :SK_TO.                             *)
C25_TextAndBindingsAgree ==
    (op = "Query" /\ query.pk.some) =>
        LET text == Query_key_condition_expression(query)
            names == DOMAIN Query_key_expression_attribute_names(query)
            values == DOMAIN Query_key_expression_attribute_values(query)
            char(i) == SubSeq(text, i, i)
            delimiter(i) == i > Len(text) \/ char(i) \in {" ", ",", "(", ")"}
            end(i) == CHOOSE j \in i..Len(text) :
                          /\ delimiter(j + 1)
                          /\ \A k \in i..j : ~delimiter(k)
            aliases(sigil) ==
                {SubSeq(text, i, end(i)) : i \in {k \in 1..Len(text) : char(k) = sigil}}
            sort_clause == text # "#PK = :PK"
        IN  /\ aliases("#") = names
            /\ aliases(":") = values
            /\ ("#SK" \in names) = sort_clause
            /\ sort_clause = (":SK" \in values \/ {":SK_FROM", ":SK_TO"} \subseteq values)
            /\ ~(":SK" \in values /\ {":SK_FROM", ":SK_TO"} \cap values # {})
            /\ (":SK_FROM" \in values) = (":SK_TO" \in values)

C25_Witness ==
    /\ op = "Query"
    /\ query.pk.some
    /\ query.sk_attribute.some
    /\ query.sk.some
    /\ query.sk.v.tag = "Between"
    /\ hist.sk_prev = "single"
    /\ Query_key_condition_expression(query)
           = "#PK = :PK AND #SK BETWEEN :SK_FROM AND :SK_TO"
    /\ DOMAIN Query_key_expression_attribute_values(query) = {":PK", ":SK_FROM", ":SK_TO"}

(* C26: a sort-condition setter whose encoder yields no value clears the   *)
(* condition instead of keeping the previous one: after sk_eq, sk_lt,      *)
(* sk_lte, sk_gt or sk_gte with an input the encoder maps to None, or      *)
(* sk_between with a bound that encodes to None, the builder holds no sort *)
(* condition even if one was set before; with the no-key encoder these     *)
(* setters never activate a condition, while sk_begins_with, which takes   *)
(* an encoded value, always activates one.                                 *)
C26_NoValueClearsSortCondition ==
    (op = "Query" /\ hist.sk_call.some) =>
        LET method == hist.sk_call.v.method
            args == hist.sk_call.v.args
            encoded(i) == KeyBuilder_build(table.sk_builder, args[i])
            single == {"sk_eq", "sk_lt", "sk_lte", "sk_gt", "sk_gte"}
        IN  /\ (method \in single /\ ~encoded(1).some) => query.sk = None
            /\ (method = "sk_between" /\ (~encoded(1).some \/ ~encoded(2).some)) =>
                   query.sk = None
            /\ (table.sk_builder = "NotKey" /\ method # "sk_begins_with") =>
                   /\ ~query.sk.some
                   /\ query.pk.some => Query_key_condition_expression(query) = "#PK = :PK"
            /\ method = "sk_begins_with" =>
                   /\ query.sk = Some([tag |-> "BeginsWith", val |-> args[1]])
                   /\ (query.pk.some /\ query.sk_attribute.some) =>
                          Query_key_condition_expression(query)
                              = "#PK = :PK AND begins_with (#SK, :SK)"

C26_Witness ==
    /\ op = "Query"
    /\ table.sk_builder = "NotKey"
    /\ query.sk_attribute.some
    /\ hist.sk_prev = "single"
    /\ hist.sk_call.some
    /\ hist.sk_call.v.method = "sk_between"
    /\ query.sk = None

(* C27: the Query builder imposes no order between the partition-key       *)
(* setter and the sort-condition setters: from any builder, pk_eq(a)       *)
(* followed by an sk_* call and the same sk_* call followed by pk_eq(a)    *)
(* give builders with the same key-condition text and the same name and    *)
(* value bindings; a second pk_eq replaces the partition-key value (the    *)
(* last call wins) and leaves the sort condition as it was.                *)
C27_KeySettersCommute ==
    (op = "Query" /\ pc = "building") =>
        LET rendered(q) == << Query_key_condition_expression(q),
                              Query_key_expression_attribute_names(q),
                              Query_key_expression_attribute_values(q),
                              Query_expression_attribute_names(q),
                              Query_expression_attribute_values(q) >>
            sk_calls ==
                { <<QueryOperation_sk_eq(query, b),
                    QueryOperation_sk_eq(QueryOperation_pk_eq(query, a), b), a>> :
                      a \in Inputs, b \in Inputs }
                \cup { <<QueryOperation_sk_lt(query, b),
                         QueryOperation_sk_lt(QueryOperation_pk_eq(query, a), b), a>> :
                           a \in Inputs, b \in Inputs }
                \cup { <<QueryOperation_sk_lte(query, b),
                         QueryOperation_sk_lte(QueryOperation_pk_eq(query, a), b), a>> :
                           a \in Inputs, b \in Inputs }
                \cup { <<QueryOperation_sk_gt(query, b),
                         QueryOperation_sk_gt(QueryOperation_pk_eq(query, a), b), a>> :
                           a \in Inputs, b \in Inputs }
                \cup { <<QueryOperation_sk_gte(query, b),
                         QueryOperation_sk_gte(QueryOperation_pk_eq(query, a), b), a>> :
                           a \in Inputs, b \in Inputs }
                \cup { <<QueryOperation_sk_between(query, b, b + 1),
                         QueryOperation_sk_between(QueryOperation_pk_eq(query, a), b, b + 1),
                         a>> : a \in Inputs, b \in Inputs }
                \cup { <<QueryOperation_sk_begins_with(query, v),
                         QueryOperation_sk_begins_with(QueryOperation_pk_eq(query, a), v),
                         a>> : a \in Inputs, v \in BeginsWithValues }
        IN  /\ \A call \in sk_calls :
                   LET sk_first == QueryOperation_pk_eq(call[1], call[3])
                       pk_first == call[2]
                   IN  /\ rendered(sk_first) = rendered(pk_first)
                       /\ sk_first = pk_first
                       /\ sk_first.sk = call[1].sk
            /\ \A a \in Inputs, b \in Inputs :
                   LET twice == QueryOperation_pk_eq(QueryOperation_pk_eq(query, a), b)
                   IN  /\ twice = QueryOperation_pk_eq(query, b)
                       /\ twice.pk = KeyBuilder_build(table.pk_builder, b)
                       /\ twice.sk = query.sk

(* pk_eq called after a sort-condition setter: the state is the one the    *)
(* other order gives                                                       *)
C27_Witness ==
    /\ op = "Query"
    /\ query.sk_attribute.some
    /\ hist.pk_in = Some(FirstInput)
    /\ hist.sk_call.some
    /\ hist.sk_call.v.method = "sk_gt"
    /\ query.pk.some
    /\ query.sk.some
    /\ query.input_builder.limit.some
    /\ [query EXCEPT !.input_builder = Query_query(table).input_builder]
           = QueryOperation_sk_gt(QueryOperation_pk_eq(Query_query(table), FirstInput),
                                  FirstInput)
    /\ Query_key_condition_expression(query) = "#PK = :PK AND #SK > :SK"

(* C28: the string builder Query renders with and the AST builder render   *)
(* the same text for every expression built by the same sequence of        *)
(* corresponding constructor calls on the same operand texts (eq/equal,    *)
(* ne, lt, lte, gt, gte, between, any, and, or, wrap/paren, not, the five  *)
(* functions and size); the sort conditions of Query render as the AST     *)
(* builder renders them on #SK, :SK, :SK_FROM and :SK_TO.                  *)
C28_BuildersRenderTheSameText ==
    /\ sexp.some =>
          /\ cexp.expr.some
          /\ ConditionExpression_fmt(cexp.expr.v) = Expression_fmt(sexp.v)
          /\ From_ConditionExpression_for_String(cexp.expr.v)
                 = From_Expression_for_String(sexp.v)
    /\ SkCondition_expression([tag |-> "Eq"])
           = ConditionExpression_fmt(Condition_equal("#SK", ":SK"))
    /\ SkCondition_expression([tag |-> "Lt"])
           = ConditionExpression_fmt(Condition_lt("#SK", ":SK"))
    /\ SkCondition_expression([tag |-> "Lte"])
           = ConditionExpression_fmt(Condition_lte("#SK", ":SK"))
    /\ SkCondition_expression([tag |-> "Gt"])
           = ConditionExpression_fmt(Condition_gt("#SK", ":SK"))
    /\ SkCondition_expression([tag |-> "Gte"])
           = ConditionExpression_fmt(Condition_gte("#SK", ":SK"))
    /\ SkCondition_expression([tag |-> "Between"])
           = ConditionExpression_fmt(Condition_between("#SK", ":SK_FROM", ":SK_TO"))
    /\ SkCondition_expression([tag |-> "BeginsWith"])
           = ConditionExpression_fmt(condition_begins_with("#SK", ":SK"))

C28_Witness ==
    /\ sexp = Some("(size (Brand) IN (:a, :b)) OR #y = :y")
    /\ cexp.expr.some
    /\ cexp.expr.v.tag = "Or"
    /\ cexp.expr.v.left.tag = "Parentheses"
    /\ cexp.expr.v.left.expr.tag = "Any"

(* ---------------------------------------------------------------------- *)
(* Algebra of the condition trees and of the update-expression merge       *)
(* ---------------------------------------------------------------------- *)

(* C29: rendering of AND / OR chains does not record grouping: for         *)
(* expressions a, b, c the trees a.and(b).and(c) and a.and(b.and(c)) are   *)
(* unequal but both render "a AND b AND c"; likewise for or and for mixed  *)
(* chains, so rendering is not injective on trees; only a paren node makes *)
(* the grouping visible in the text.                                       *)
C29_RenderingForgetsGrouping ==
    cexp.expr.some =>
        \A b \in OtherConditions, c \in OtherConditions :
            LET a == cexp.expr.v
                ta == ConditionExpression_fmt(a)
                tb == ConditionExpression_fmt(b)
                tc == ConditionExpression_fmt(c)
                and_left == ConditionExpression_and(ConditionExpression_and(a, b), c)
                and_right == ConditionExpression_and(a, ConditionExpression_and(b, c))
                or_left == ConditionExpression_or(ConditionExpression_or(a, b), c)
                or_right == ConditionExpression_or(a, ConditionExpression_or(b, c))
                mixed_left == ConditionExpression_or(ConditionExpression_and(a, b), c)
                mixed_right == ConditionExpression_and(a, ConditionExpression_or(b, c))
                grouped == ConditionExpression_and(
                               a, condition_paren(ConditionExpression_or(b, c)))
            IN  /\ and_left # and_right
                /\ ConditionExpression_fmt(and_left) = ta \o " AND " \o tb \o " AND " \o tc
                /\ ConditionExpression_fmt(and_right) = ta \o " AND " \o tb \o " AND " \o tc
                /\ or_left # or_right
                /\ ConditionExpression_fmt(or_left) = ta \o " OR " \o tb \o " OR " \o tc
                /\ ConditionExpression_fmt(or_right) = ta \o " OR " \o tb \o " OR " \o tc
                /\ mixed_left # mixed_right
                /\ ConditionExpression_fmt(mixed_left) = ta \o " AND " \o tb \o " OR " \o tc
                /\ ConditionExpression_fmt(mixed_right) = ta \o " AND " \o tb \o " OR " \o tc
                /\ ConditionExpression_fmt(grouped)
                       = ta \o " AND (" \o tb \o " OR " \o tc \o ")"
                /\ ConditionExpression_fmt(grouped) # ConditionExpression_fmt(mixed_right)

(* a.and(b).and(c) has been built; its text is the text of a.and(b.and(c)) *)
C29_Witness ==
    /\ op = "ConditionExpression"
    /\ cexp.expr.some
    /\ cexp.expr.v.tag = "And"
    /\ cexp.expr.v.left.tag = "And"
    /\ cexp.expr.v.right.tag = "Compare"
    /\ ConditionExpression_fmt(cexp.expr.v) = "#x = :x AND #y = :y AND #y = :y"
    /\ cexp.expr.v
           # ConditionExpression_and(cexp.expr.v.left.left,
                 ConditionExpression_and(cexp.expr.v.left.right, cexp.expr.v.right))
    /\ ConditionExpression_fmt(cexp.expr.v)
           = ConditionExpression_fmt(
                 ConditionExpression_and(cexp.expr.v.left.left,
                     ConditionExpression_and(cexp.expr.v.left.right, cexp.expr.v.right)))

(* C30: the update-expression merge commutes across clause kinds and has   *)
(* an identity: for a and b with no clause kind in common a.and(b) equals  *)
(* b.and(a), as a value and as rendered text; UpdateExpression::new() is a *)
(* two-sided identity; and each clause kind of a.and(b) has as many items  *)
(* as a and b have together (none dropped, none duplicated).               *)
C30_MergeCommutesAcrossKinds ==
    \A x \in DOMAIN uexp, y \in DOMAIN uexp :
        LET a == uexp[x]
            b == uexp[y]
            kinds(e) == {k \in {"set", "remove", "add", "delete"} : e[k] # <<>>}
            ab == UpdateExpression_and(a, b)
            ba == UpdateExpression_and(b, a)
        IN  /\ kinds(a) \cap kinds(b) = {} =>
                  /\ ab = ba
                  /\ UpdateExpression_fmt(ab) = UpdateExpression_fmt(ba)
            /\ UpdateExpression_and(UpdateExpression_new, a) = a
            /\ UpdateExpression_and(a, UpdateExpression_new) = a
            /\ \A k \in {"set", "remove", "add", "delete"} :
                   /\ Len(ab[k]) = Len(a[k]) + Len(b[k])
                   /\ \A i \in 1..Len(a[k]) : ab[k][i] = a[k][i]
                   /\ \A i \in 1..Len(b[k]) : ab[k][Len(a[k]) + i] = b[k][i]
            /\ kinds(ab) = kinds(a) \cup kinds(b)

C30_Witness ==
    /\ uexp.a.set # <<>>
    /\ uexp.a.remove = <<>>
    /\ uexp.a.add = <<>>
    /\ uexp.b.set = <<>>
    /\ uexp.b.remove # <<>>
    /\ uexp.b.add # <<>>
    /\ uexp.c = UpdateExpression_new
    /\ UpdateExpression_fmt(UpdateExpression_and(uexp.b, uexp.a))
           = "SET #x = :x REMOVE #y ADD #x :x"

====
